---- MODULE Spec2Model ----
(***************************************************************************)
(* A model of the backend of the Adobe Express add-on:                     *)
(*   - RateLimiter and ImageFeatureAnalyzer of backend/main.py             *)
(*   - extract_code_from_response of backend/main.py, backend/chatbot.py   *)
(*   - the uploads folder handlers of backend/compliance.py                *)
(*   - the routes of backend/main.py: LinkedIn OAuth and posting, Jira     *)
(*   - BrandComplianceChecker._parse_response of backend/compliance.py     *)
(*   - the copyright check of backend/compliance.py                        *)
(* Time is counted in whole seconds on the variable clock.                 *)
(***************************************************************************)
EXTENDS Integers, Sequences, FiniteSets, TLC

VARIABLES
    \* RateLimiter
    max_requests,        \* self.max_requests
    min_delay,           \* self.min_delay
    request_times,       \* self.request_times, a list of times
    last_request_time,   \* self.last_request_time: <<>> is None, <<t>> a time
    clock,               \* datetime.now()
    admitted,            \* history: the times at which wait_if_needed returned
    arrivals,            \* history: the times at which wait_if_needed was called
    \* ImageFeatureAnalyzer
    max_retries,         \* self.max_retries
    base_delay,          \* self.base_delay
    posts,               \* the argument of analyze_posts_batch
    idx,                 \* the posts of the batch already finished
    pc,                  \* "batch", "retry", "returned", "raised"
    attempt,             \* the loop variable of _retry_with_backoff
    calls,               \* history: invocations of func in this _retry_with_backoff
    last_exc,            \* history: <<>> or <<message>> of the last exception raised
    sleeps,              \* history: the backoff sleeps of this _retry_with_backoff
    result,              \* what _retry_with_backoff returned
    results,             \* the list analyze_posts_batch builds
    attempted,           \* history: the posts handed to analyze_single_image
    returns,             \* history: what analyze_single_image returned, per post
    outcomes,            \* history: "raised" or "returned", per invocation of func
    last_ret,            \* history: <<>> or <<value>> that func returned last
    \* categorize_posts_by_popularity
    cat_posts,           \* the argument posts
    top_percentage,      \* the argument top_percentage, a fraction [num, den]
    cat_out,             \* <<>>, or <<[popular, less_popular]>> once it returned
    \* find_common_features
    analyzed_posts,      \* the argument analyzed_posts
    threshold,           \* the argument threshold, a fraction [num, den]
    common_out,          \* <<>>, or <<common_features>> once it returned
    \* extract_code_from_response
    text,                \* the argument text
    code_out,            \* <<>>, or <<r>> once it returned: r is <<>> for None
                         \* and <<code>> for a str
    \* the uploads folder (compliance.py)
    files,               \* the files of UPLOADS_DIR: [name, mtime, content]
    fs_time,             \* the time, in ticks of the file system's timestamps
    requests_done,       \* the requests handled so far
    guideline_files,     \* compliance_check: the glob result, <<>> before it
    guideline_file,      \* compliance_check: <<>>, or <<f>>, the file it loads
    uploaded_last,       \* history: <<>>, or <<c>>, the guidelines uploaded last
    response,            \* the status of the last response
    \* the service (main.py): config.json, the routes, LinkedIn and Jira
    config,              \* config.json: [client, access_token]
    api_request,         \* the request handled last: [method, path]
    api_response,        \* the response to it: [status, detail, body]
    post_pc,             \* post_linkedin: "idle", or the step it is about to do
    temp_files,          \* the files of the temporary directory
    created_temp,        \* history: the temporary files this request created
    next_temp,           \* the names tempfile has given out so far
    sent,                \* history: the requests this request sent out, in order
    replies,             \* history: how each of them ended
    token_before,        \* history: config's access_token when the request began
    issued_states,       \* history: the state values /auth/login put in a redirect
    callback_state,      \* history: <<>>, or <<s>>, the state of the last callback
    \* BrandComplianceChecker._parse_response and the status of compliance_check
    answer,              \* response.text of the model, a string
    compliance_status,   \* <<>>, or <<"passed">>, <<"failed">>
    \* copyright_check (compliance.py)
    image_results,       \* results["image_results"] of the reverse image search
    ai_text,             \* what analyze_copyright_with_ai returns: <<>> is None
    copyright_out,       \* <<>>, or <<[status, copyright_count, total_results]>>
    written              \* history: the name each request wrote its file under

limiterVars == <<max_requests, min_delay, request_times, last_request_time,
                 clock, admitted, arrivals>>

analyzerVars == <<max_retries, base_delay, posts, idx, pc, attempt, calls,
                  last_exc, sleeps, result, results, attempted, returns,
                  outcomes, last_ret>>

pureVars == <<cat_posts, top_percentage, cat_out, analyzed_posts, threshold,
              common_out, text, code_out>>

fsVars == <<files, fs_time, requests_done, guideline_files, guideline_file,
            uploaded_last, response>>

apiVars == <<config, api_request, api_response, post_pc, temp_files,
             created_temp, next_temp, sent, replies, token_before,
             issued_states, callback_state>>

parseVars == <<answer, compliance_status>>

searchVars == <<image_results, ai_text, copyright_out, written>>

vars == <<limiterVars, analyzerVars, pureVars, fsVars, apiVars, parseVars,
          searchVars>>

----------------------------------------------------------------------------
\* Bounds of the model

MaxCalls == 4          \* calls of wait_if_needed in one run of LimiterSpec
MaxRequests == 2       \* largest max_requests_per_minute tried

\* min_delay_seconds tried, the gaps between a return and the next call, and
\* by how much time.sleep may overshoot the time it was asked to sleep
MinDelays == {0, 12}
Gaps == {0, 12, 14, 50}
Oversleeps == {0, 1}

----------------------------------------------------------------------------
\* Generic helpers

Max(a, b) == IF a >= b THEN a ELSE b

RECURSIVE Pow(_, _)
Pow(b, e) == IF e = 0 THEN 1 ELSE b * Pow(b, e - 1)

----------------------------------------------------------------------------
\* RateLimiter (main.py)

WindowSeconds == 60    \* timedelta(minutes=1)
WindowWait == 61       \* wait_time = 61 - (now - oldest)

\* lines 50-56: the time after the minimum-delay wait. over is the overshoot
\* of time.sleep.
MinDelayWait_NoSleep(now, last, delay, over) == now

MinDelayWait(now, last, delay, over) ==
    IF last # <<>> /\ now - last[1] < delay
    THEN now + (delay - (now - last[1])) + over
    ELSE now

\* lines 58-59: the requests of the last minute
PruneWindow(times, now) ==
    LET InWindow(t) == now - t < WindowSeconds
    IN  SelectSeq(times, InWindow)

\* lines 61-67: the window wait; the list is emptied after the sleep
WindowWaitStep(times, now, maxreq, over) ==
    IF Len(times) >= maxreq
    THEN LET oldest == times[1]
             wait_time == WindowWait - (now - oldest)
         IN  IF wait_time > 0
             THEN [now |-> now + wait_time + over, times |-> <<>>]
             ELSE [now |-> now, times |-> times]
    ELSE [now |-> now, times |-> times]

\* RateLimiter.wait_if_needed as a function of the limiter's state: the state
\* in which it returns
WaitResult(times, last, now, maxreq, delay, over1, over2) ==
    LET now1 == MinDelayWait(now, last, delay, over1)
        w == WindowWaitStep(PruneWindow(times, now1), now1, maxreq, over2)
    IN  [request_times |-> Append(w.times, w.now),
         last_request_time |-> <<w.now>>,
         clock |-> w.now]

\* One call of wait_if_needed, gap seconds after the previous call returned
WaitIfNeeded(gap, over1, over2) ==
    /\ Len(arrivals) < MaxCalls
    /\ LET r == WaitResult(request_times, last_request_time, clock + gap,
                           max_requests, min_delay, over1, over2)
       IN  /\ request_times' = r.request_times
           /\ last_request_time' = r.last_request_time
           /\ clock' = r.clock
           /\ admitted' = Append(admitted, r.clock)
           /\ arrivals' = Append(arrivals, clock + gap)
    /\ UNCHANGED <<max_requests, min_delay>>
    /\ UNCHANGED <<analyzerVars, pureVars, fsVars, apiVars, parseVars,
                   searchVars>>

\* The parts of the program a specification leaves alone
LimiterIdle ==
    /\ max_requests = 1
    /\ min_delay = 0
    /\ request_times = <<>>
    /\ last_request_time = <<>>
    /\ clock = 0
    /\ admitted = <<>>
    /\ arrivals = <<>>

CategorizeIdle ==
    /\ cat_posts = <<>>
    /\ top_percentage = [num |-> 1, den |-> 1]
    /\ cat_out = <<>>

FeaturesIdle ==
    /\ analyzed_posts = <<>>
    /\ threshold = [num |-> 1, den |-> 1]
    /\ common_out = <<>>

ExtractIdle ==
    /\ text = <<>>
    /\ code_out = <<>>

PureIdle == CategorizeIdle /\ FeaturesIdle /\ ExtractIdle

FsIdle ==
    /\ files = {}
    /\ fs_time = 0
    /\ requests_done = 0
    /\ guideline_files = <<>>
    /\ guideline_file = <<>>
    /\ uploaded_last = <<>>
    /\ response = 0

ApiIdle ==
    /\ config = [client |-> FALSE, access_token |-> <<>>]
    /\ api_request = [method |-> "none", path |-> <<>>]
    /\ api_response = [status |-> 0, detail |-> <<>>, body |-> [none |-> TRUE]]
    /\ post_pc = "idle"
    /\ temp_files = {}
    /\ created_temp = {}
    /\ next_temp = 0
    /\ sent = <<>>
    /\ replies = <<>>
    /\ token_before = <<>>
    /\ issued_states = {}
    /\ callback_state = <<>>

SearchIdle ==
    /\ image_results = <<>>
    /\ ai_text = <<>>
    /\ copyright_out = <<>>
    /\ written = <<>>

ParseIdle ==
    /\ answer = <<>>
    /\ compliance_status = <<>>

AnalyzerIdle ==
    /\ max_retries = 0
    /\ base_delay = 0
    /\ posts = <<>>
    /\ idx = 0
    /\ pc = "batch"
    /\ attempt = 0
    /\ calls = 0
    /\ last_exc = <<>>
    /\ sleeps = <<>>
    /\ result = "None"
    /\ results = <<>>
    /\ attempted = <<>>
    /\ returns = <<>>
    /\ outcomes = <<>>
    /\ last_ret = <<>>

LimiterInit ==
    /\ AnalyzerIdle
    /\ PureIdle
    /\ FsIdle
    /\ ApiIdle
    /\ ParseIdle
    /\ SearchIdle
    /\ max_requests \in 1..MaxRequests
    /\ min_delay \in MinDelays
    /\ request_times = <<>>
    /\ last_request_time = <<>>
    /\ clock = 0
    /\ admitted = <<>>
    /\ arrivals = <<>>

LimiterNext ==
    \E gap \in Gaps, over1 \in Oversleeps, over2 \in Oversleeps :
        WaitIfNeeded(gap, over1, over2)

LimiterSpec == LimiterInit /\ [][LimiterNext]_vars

----------------------------------------------------------------------------
\* the requests admitted in the 60 seconds that end with request i
AdmittedInWindow(i) ==
    {j \in 1..i : admitted[i] - admitted[j] < WindowSeconds}

\* C1: sliding-window limit. Whenever a request is admitted, the requests
\* admitted in the 60 seconds ending with it (itself included) number at most
\* max_requests_per_minute.
C1_SlidingWindowLimit ==
    \A i \in 1..Len(admitted) : Cardinality(AdmittedInWindow(i)) <= max_requests

\* C2: minimum delay. Each call of wait_if_needed returns at least
\* min_delay_seconds after the previous call returned.
C2_MinimumDelay ==
    \A i \in 2..Len(admitted) : admitted[i] - admitted[i - 1] >= min_delay

\* a call that arrived before the minimum delay had passed, and returned
C2_Witness ==
    \E i \in 2..Len(admitted) :
        /\ min_delay > 0
        /\ arrivals[i] - admitted[i - 1] < min_delay
        /\ admitted[i] - admitted[i - 1] >= min_delay

----------------------------------------------------------------------------
\* Text: a Python str is a sequence of one-character strings

UpperCase == <<"A", "B", "C", "D", "E", "F", "G", "H", "I", "J", "K", "L", "M",
               "N", "O", "P", "Q", "R", "S", "T", "U", "V", "W", "X", "Y", "Z">>
LowerCase == <<"a", "b", "c", "d", "e", "f", "g", "h", "i", "j", "k", "l", "m",
               "n", "o", "p", "q", "r", "s", "t", "u", "v", "w", "x", "y", "z">>

\* str.lower() on one character and on a str
LowerChar(c) ==
    IF \E i \in 1..Len(UpperCase) : UpperCase[i] = c
    THEN LowerCase[CHOOSE i \in 1..Len(UpperCase) : UpperCase[i] = c]
    ELSE c

Lower(s) == [i \in 1..Len(s) |-> LowerChar(s[i])]

\* str.upper() on one character and on a str
UpperChar(c) ==
    IF \E i \in 1..Len(LowerCase) : LowerCase[i] = c
    THEN UpperCase[CHOOSE i \in 1..Len(LowerCase) : LowerCase[i] = c]
    ELSE c

Upper(s) == [i \in 1..Len(s) |-> UpperChar(s[i])]

\* s has sub at position i (1-based)
HasAt(s, sub, i) ==
    /\ i >= 1
    /\ i + Len(sub) - 1 <= Len(s)
    /\ \A k \in 1..Len(sub) : s[i + k - 1] = sub[k]

\* sub in s
Contains(s, sub) == \E i \in 1..(Len(s) + 1) : HasAt(s, sub, i)

----------------------------------------------------------------------------
\* ImageFeatureAnalyzer._retry_with_backoff (main.py)

\* lines 113-116: the markers of a rate-limit error
RateLimitMarkers == {
    <<"4", "2", "9">>,
    <<"r", "e", "s", "o", "u", "r", "c", "e", "_",
      "e", "x", "h", "a", "u", "s", "t", "e", "d">>,
    <<"q", "u", "o", "t", "a">>,
    <<"r", "a", "t", "e", " ", "l", "i", "m", "i", "t">>,
    <<"t", "o", "o", " ", "m", "a", "n", "y", " ",
      "r", "e", "q", "u", "e", "s", "t", "s">>,
    <<"l", "i", "m", "i", "t", " ", "e", "x", "c", "e", "e", "d", "e", "d">> }

\* lines 111-116: is_rate_limit of the exception whose str() is msg
IsRateLimit(msg) ==
    LET error_str == Lower(msg)
    IN  \E m \in RateLimitMarkers : Contains(error_str, m)

\* The messages of the exceptions the wrapped call raises in this model
Msg429 == <<"4", "2", "9", " ", "R", "E", "S", "O", "U", "R", "C", "E">>
MsgExhausted == <<"R", "E", "S", "O", "U", "R", "C", "E", "_",
                  "E", "X", "H", "A", "U", "S", "T", "E", "D">>
MsgQuota == <<"Q", "u", "o", "t", "a", " ", "h", "i", "t">>
MsgRateLimit == <<"R", "a", "t", "e", " ", "L", "i", "m", "i", "t">>
MsgTooMany == <<"T", "o", "o", " ", "M", "a", "n", "y", " ",
                "R", "e", "q", "u", "e", "s", "t", "s">>
MsgExceeded == <<"l", "i", "m", "i", "t", " ", "e", "x", "c", "e", "e", "d", "e", "d">>
MsgTimeout == <<"t", "i", "m", "e", "o", "u", "t">>
MsgNotFound == <<"4", "0", "4", " ", "n", "o", " ", "f", "i", "l", "e">>
MsgHyphen == <<"r", "a", "t", "e", "-", "l", "i", "m", "i", "t">>
MsgEmpty == <<>>

RateLimitMessages ==
    {Msg429, MsgExhausted, MsgQuota, MsgRateLimit, MsgTooMany, MsgExceeded}
OtherMessages == {MsgTimeout, MsgNotFound, MsgHyphen, MsgEmpty}
Messages == RateLimitMessages \cup OtherMessages

\* is_rate_limit of every message of the model, computed once
IsRateLimitOf == [m \in Messages |-> IsRateLimit(m)]

\* line 120: the backoff delay after the failure of attempt number att (0-based)
BackoffDelay_Doubling(base, att) == base * Pow(2, att)

BackoffDelay(base, att) == base * Pow(3, att)

\* lines 110-128: what the except clause does with the exception of attempt
\* att: sleep and go round the loop again, or return None
OnException_RetryAnyError(msg, att, retries) ==
    IF att < retries - 1 THEN "sleep" ELSE "return_none"

OnException_Reraise(msg, att, retries) ==
    IF IsRateLimitOf[msg]
    THEN IF att < retries - 1 THEN "sleep" ELSE "return_none"
    ELSE "raise"

OnException(msg, att, retries) ==
    IF IsRateLimitOf[msg]
    THEN IF att < retries - 1 THEN "sleep" ELSE "return_none"
    ELSE "return_none"

\* What _make_request returns when it does not raise: the parsed JSON. "None"
\* is Python's None (JSON null), "{}" the empty dict; both are falsy.
Values == {"None", "{}", "featuresA"}
Truthy(v) == v \notin {"None", "{}"}

\* ImageFeatureAnalyzer.__init__ line 81: the analyzer's limiter
AnalyzerMaxRequests == 5
AnalyzerMinDelay == 12

\* line 106: self.rate_limiter.wait_if_needed(); time.sleep is taken to sleep
\* exactly as long as asked and the call of the model to take no time
LimiterStep ==
    LET r == WaitResult(request_times, last_request_time, clock,
                        max_requests, min_delay, 0, 0)
    IN  /\ request_times' = r.request_times
        /\ last_request_time' = r.last_request_time
        /\ admitted' = Append(admitted, r.clock)
        /\ arrivals' = Append(arrivals, clock)
        /\ UNCHANGED <<max_requests, min_delay>>

ClockAfterCall ==
    WaitResult(request_times, last_request_time, clock,
               max_requests, min_delay, 0, 0).clock

\* lines 104-108: one iteration of the loop in which func returns v
AttemptReturns(v) ==
    /\ pc = "retry"
    /\ attempt < max_retries
    /\ LimiterStep
    /\ clock' = ClockAfterCall
    /\ calls' = calls + 1
    /\ last_exc' = <<>>
    /\ outcomes' = Append(outcomes, "returned")
    /\ last_ret' = <<v>>
    /\ result' = v
    /\ pc' = "returned"
    /\ UNCHANGED <<max_retries, base_delay, posts, idx, attempt, sleeps,
                   results, attempted, returns>>
    /\ UNCHANGED <<pureVars, fsVars, apiVars, parseVars,
                   searchVars>>

\* lines 104-128: one iteration of the loop in which func raises an exception
\* with message msg
AttemptRaises(msg) ==
    /\ pc = "retry"
    /\ attempt < max_retries
    /\ LimiterStep
    /\ calls' = calls + 1
    /\ last_exc' = <<msg>>
    /\ outcomes' = Append(outcomes, "raised")
    /\ last_ret' = <<>>
    /\ LET todo == OnException(msg, attempt, max_retries)
           delay == BackoffDelay(base_delay, attempt)
       IN  \/ /\ todo = "sleep"
              /\ sleeps' = Append(sleeps, delay)
              /\ clock' = ClockAfterCall + delay
              /\ attempt' = attempt + 1
              /\ UNCHANGED <<pc, result>>
           \/ /\ todo = "return_none"
              /\ clock' = ClockAfterCall
              /\ result' = "None"
              /\ pc' = "returned"
              /\ UNCHANGED <<attempt, sleeps>>
           \/ /\ todo = "raise"
              /\ clock' = ClockAfterCall
              /\ pc' = "raised"
              /\ UNCHANGED <<attempt, sleeps, result>>
    /\ UNCHANGED <<max_retries, base_delay, posts, idx, results, attempted,
                   returns>>
    /\ UNCHANGED <<pureVars, fsVars, apiVars, parseVars,
                   searchVars>>

\* line 130: the loop ended without a return
LoopExhausted ==
    /\ pc = "retry"
    /\ attempt >= max_retries
    /\ result' = "None"
    /\ pc' = "returned"
    /\ UNCHANGED limiterVars
    /\ UNCHANGED <<max_retries, base_delay, posts, idx, attempt, calls,
                   last_exc, sleeps, results, attempted, returns, outcomes,
                   last_ret>>
    /\ UNCHANGED <<pureVars, fsVars, apiVars, parseVars,
                   searchVars>>

----------------------------------------------------------------------------
\* ImageFeatureAnalyzer.analyze_posts_batch (main.py)

\* lines 198-201: the next post goes to analyze_single_image, which calls
\* _retry_with_backoff (line 183)
BeginPost ==
    /\ pc = "batch"
    /\ idx < Len(posts)
    /\ attempted' = Append(attempted, posts[idx + 1])
    /\ pc' = "retry"
    /\ attempt' = 0
    /\ calls' = 0
    /\ last_exc' = <<>>
    /\ sleeps' = <<>>
    /\ outcomes' = <<>>
    /\ last_ret' = <<>>
    /\ UNCHANGED limiterVars
    /\ UNCHANGED <<max_retries, base_delay, posts, idx, result, results,
                   returns>>
    /\ UNCHANGED <<pureVars, fsVars, apiVars, parseVars,
                   searchVars>>

\* lines 203-210: the entry of results for a post whose features are truthy
AfterPost_AppendAlways(res, post, features) ==
    Append(res, [post |-> post, features |-> features])

AfterPost(res, post, features) ==
    IF Truthy(features)
    THEN Append(res, [post |-> post, features |-> features])
    ELSE res

\* lines 201-210: analyze_single_image returned; the locals of the finished
\* call of _retry_with_backoff are gone
EndPost ==
    /\ pc = "returned"
    /\ results' = AfterPost(results, posts[idx + 1], result)
    /\ returns' = Append(returns, result)
    /\ idx' = idx + 1
    /\ pc' = "batch"
    /\ attempt' = 0
    /\ calls' = 0
    /\ last_exc' = <<>>
    /\ sleeps' = <<>>
    /\ outcomes' = <<>>
    /\ last_ret' = <<>>
    /\ result' = "None"
    /\ UNCHANGED limiterVars
    /\ UNCHANGED <<max_retries, base_delay, posts, attempted>>
    /\ UNCHANGED <<pureVars, fsVars, apiVars, parseVars,
                   searchVars>>

\* PostData (lines 27-34)
PostPool == {[image_path |-> "a.png", likes |-> 10],
             [image_path |-> "b.png", likes |-> 3]}

\* analyze_past_posts line 1216: ImageFeatureAnalyzer(max_retries=5, base_delay=20)
DefaultMaxRetries == 5
DefaultBaseDelay == 20

MaxPosts == 2          \* posts in one batch
MaxRetries == 3        \* largest max_retries tried
BaseDelays == {1, DefaultBaseDelay}  \* base_delay tried

SeqsUpTo(S, n) == UNION {[1..k -> S] : k \in 0..n}

AnalyzerInit ==
    /\ PureIdle
    /\ FsIdle
    /\ ApiIdle
    /\ ParseIdle
    /\ SearchIdle
    /\ max_requests = AnalyzerMaxRequests
    /\ min_delay = AnalyzerMinDelay
    /\ request_times = <<>>
    /\ last_request_time = <<>>
    /\ clock = 0
    /\ admitted = <<>>
    /\ arrivals = <<>>
    /\ max_retries \in (0..MaxRetries) \cup {DefaultMaxRetries}
    /\ base_delay \in BaseDelays
    /\ posts \in SeqsUpTo(PostPool, MaxPosts)
    /\ idx = 0
    /\ pc = "batch"
    /\ attempt = 0
    /\ calls = 0
    /\ last_exc = <<>>
    /\ sleeps = <<>>
    /\ result = "None"
    /\ results = <<>>
    /\ attempted = <<>>
    /\ returns = <<>>
    /\ outcomes = <<>>
    /\ last_ret = <<>>

AnalyzerNext ==
    \/ BeginPost
    \/ \E v \in Values : AttemptReturns(v)
    \/ \E msg \in Messages : AttemptRaises(msg)
    \/ LoopExhausted
    \/ EndPost

AnalyzerSpec == AnalyzerInit /\ [][AnalyzerNext]_vars

----------------------------------------------------------------------------
\* C3: _retry_with_backoff terminates after invoking the wrapped call at most
\* max_retries times, never raises to its caller, and returns the value of
\* the first attempt that does not raise, or None when every attempt made has
\* failed. Termination: while the loop runs it can take a step, and every
\* step but the last is an invocation, of which there are at most max_retries.
C3_RetryTerminatesAndReturns ==
    /\ calls <= max_retries
    /\ Len(outcomes) = calls
    /\ pc # "raised"
    /\ pc = "retry" => ENABLED AnalyzerNext
    /\ \A i \in 1..(Len(outcomes) - 1) : outcomes[i] = "raised"
    /\ pc = "returned" =>
          IF last_ret # <<>> THEN result = last_ret[1] ELSE result = "None"
    /\ pc = "returned" /\ last_ret # <<>> => outcomes[calls] = "returned"

\* every attempt allowed was made and failed, and None came back
C3_Witness ==
    /\ pc = "returned"
    /\ max_retries >= 3
    /\ calls = max_retries
    /\ \A i \in 1..calls : outcomes[i] = "raised"
    /\ result = "None"

\* C4: an exception whose message holds none of the markers makes
\* _retry_with_backoff return None at once: no further attempt, no backoff
\* sleep after it.
C4_OtherErrorsReturnAtOnce ==
    \A m \in OtherMessages :
        last_exc = <<m>> =>
            /\ pc = "returned"
            /\ result = "None"
            /\ outcomes[calls] = "raised"
            /\ Len(sleeps) = calls - 1

\* an error that is no rate-limit error, after a retry and with attempts left
C4_Witness ==
    /\ pc = "returned"
    /\ last_exc # <<>>
    /\ last_exc[1] \in OtherMessages
    /\ calls >= 2
    /\ calls < max_retries

PowersOfThree == <<1, 3, 9, 27, 81, 243, 729>>
DefaultSchedule == <<20, 60, 180, 540>>

\* C5: after the k-th consecutive rate-limited failure, 1 <= k <=
\* max_retries - 1, the loop sleeps base_delay * 3^(k-1) seconds (20, 60, 180,
\* 540 with the defaults), and it does not sleep after the last failed attempt.
C5_BackoffSchedule ==
    /\ \A k \in 1..Len(sleeps) : sleeps[k] = base_delay * PowersOfThree[k]
    /\ Len(sleeps) <= Max(0, max_retries - 1)
    /\ pc = "retry" => Len(sleeps) = calls
    /\ \A m \in RateLimitMessages :
           last_exc = <<m>> =>
               \/ pc = "retry" /\ calls <= max_retries - 1
               \/ pc # "retry" /\ calls = max_retries /\ Len(sleeps) = calls - 1
    /\ max_retries = DefaultMaxRetries /\ base_delay = DefaultBaseDelay =>
           sleeps = SubSeq(DefaultSchedule, 1, Len(sleeps))

\* the defaults, every attempt rate-limited: four sleeps and none after the fifth
C5_Witness ==
    /\ max_retries = DefaultMaxRetries
    /\ base_delay = DefaultBaseDelay
    /\ pc = "returned"
    /\ last_exc # <<>>
    /\ last_exc[1] \in RateLimitMessages
    /\ sleeps = DefaultSchedule

\* the entries of the first n posts that came back with features
RECURSIVE KeptPosts(_)
KeptPosts(n) ==
    IF n = 0 THEN <<>>
    ELSE IF returns[n] = "featuresA"
         THEN Append(KeptPosts(n - 1), [post |-> posts[n], features |-> returns[n]])
         ELSE KeptPosts(n - 1)

\* C6: analyze_posts_batch hands every post to analyze_single_image exactly
\* once, in input order, whatever became of the earlier posts, and its result
\* is the posts whose analysis came back truthy, in input order.
C6_SkipAndContinue ==
    /\ Len(returns) = idx
    /\ Len(attempted) = IF pc = "batch" THEN idx ELSE idx + 1
    /\ attempted = SubSeq(posts, 1, Len(attempted))
    /\ results = KeptPosts(idx)
    /\ (pc = "batch" /\ ~ENABLED BeginPost) => attempted = posts

\* a batch of two in which the first post failed and the second did not
C6_Witness ==
    /\ pc = "batch"
    /\ Len(posts) = 2
    /\ idx = 2
    /\ returns[1] = "None"
    /\ returns[2] = "featuresA"
    /\ results = <<[post |-> posts[2], features |-> "featuresA"]>>

----------------------------------------------------------------------------
\* ImageFeatureAnalyzer.categorize_posts_by_popularity (main.py)

\* A float argument is a fraction num/den of integers, den > 0

\* line 187: sorted(posts, key=lambda x: x.likes, reverse=True). sorted is
\* stable, also with reverse=True: posts with equal likes keep their order.
RECURSIVE InsertByLikes_Ascending(_, _)
InsertByLikes_Ascending(sorted, p) ==
    IF sorted = <<>> THEN <<p>>
    ELSE IF Head(sorted).likes <= p.likes
         THEN <<Head(sorted)>> \o InsertByLikes_Ascending(Tail(sorted), p)
         ELSE <<p>> \o sorted

RECURSIVE InsertByLikes(_, _)
InsertByLikes(sorted, p) ==
    IF sorted = <<>> THEN <<p>>
    ELSE IF Head(sorted).likes >= p.likes
         THEN <<Head(sorted)>> \o InsertByLikes(Tail(sorted), p)
         ELSE <<p>> \o sorted

RECURSIVE SortedByLikes(_)
SortedByLikes(ps) ==
    IF ps = <<>> THEN <<>>
    ELSE InsertByLikes(SortedByLikes(SubSeq(ps, 1, Len(ps) - 1)), ps[Len(ps)])

\* line 188: split_index = max(1, int(len(sorted_posts) * top_percentage));
\* int() truncates, which for a product that is not negative is \div
SplitIndex(n, tp) == Max(1, (n * tp.num) \div tp.den)

\* s[:k] and s[k:] of Python, k >= 0
Take(sq, k) == SubSeq(sq, 1, IF k <= Len(sq) THEN k ELSE Len(sq))
Drop(sq, k) == SubSeq(sq, (IF k <= Len(sq) THEN k ELSE Len(sq)) + 1, Len(sq))

\* lines 185-193
CategorizePostsByPopularity(ps, tp) ==
    LET sorted_posts == SortedByLikes(ps)
        split_index == SplitIndex(Len(sorted_posts), tp)
    IN  [popular |-> Take(sorted_posts, split_index),
         less_popular |-> Drop(sorted_posts, split_index)]

Categorize ==
    /\ cat_out = <<>>
    /\ cat_out' = <<CategorizePostsByPopularity(cat_posts, top_percentage)>>
    /\ UNCHANGED <<cat_posts, top_percentage, analyzed_posts, threshold,
                   common_out, text, code_out>>
    /\ UNCHANGED <<limiterVars, analyzerVars, fsVars, apiVars,
                   parseVars, searchVars>>

MaxCatPosts == 3       \* posts handed to categorize_posts_by_popularity

CatPool == {[image_path |-> "a.png", likes |-> 5],
            [image_path |-> "b.png", likes |-> 5],
            [image_path |-> "c.png", likes |-> 9]}

\* top_percentage tried: 0.01, 0.3 (the default), 0.5, 1.0 and, out of range, 1.5
TopPercentages == {[num |-> 1, den |-> 100], [num |-> 3, den |-> 10],
                   [num |-> 1, den |-> 2], [num |-> 1, den |-> 1],
                   [num |-> 3, den |-> 2]}

CategorizeInit ==
    /\ LimiterIdle
    /\ AnalyzerIdle
    /\ FeaturesIdle
    /\ ExtractIdle
    /\ FsIdle
    /\ ApiIdle
    /\ ParseIdle
    /\ SearchIdle
    /\ cat_posts \in SeqsUpTo(CatPool, MaxCatPosts)
    /\ top_percentage \in TopPercentages
    /\ cat_out = <<>>
CategorizeNext == Categorize

CategorizeSpec == CategorizeInit /\ [][CategorizeNext]_vars

\* how often post p occurs in the list sq
Occurrences(sq, p) == Cardinality({i \in 1..Len(sq) : sq[i] = p})

\* C7: for a non-empty list of n posts and 0 < top_percentage <= 1, the two
\* lists together hold every input post exactly once, the popular list has
\* max(1, floor(n * top_percentage)) posts, and no popular post has fewer
\* likes than a less-popular post. floor(x) is the k with k <= x < k + 1.
C7_PopularityPartition ==
    (/\ cat_out # <<>>
     /\ Len(cat_posts) >= 1
     /\ top_percentage.num > 0
     /\ top_percentage.num <= top_percentage.den) =>
        LET popular == cat_out[1].popular
            less == cat_out[1].less_popular
            n == Len(cat_posts)
        IN  /\ \A p \in CatPool :
                   Occurrences(popular, p) + Occurrences(less, p)
                       = Occurrences(cat_posts, p)
            /\ Len(popular) + Len(less) = n
            /\ \E k \in 0..n :
                   /\ k * top_percentage.den <= n * top_percentage.num
                   /\ n * top_percentage.num < (k + 1) * top_percentage.den
                   /\ Len(popular) = IF k >= 1 THEN k ELSE 1
            /\ \A i \in 1..Len(popular), j \in 1..Len(less) :
                   popular[i].likes >= less[j].likes

\* three posts given with the most liked one last, split at one half
C7_Witness ==
    /\ cat_out # <<>>
    /\ Len(cat_posts) = 3
    /\ cat_posts[1].likes < cat_posts[3].likes
    /\ top_percentage = [num |-> 1, den |-> 2]
    /\ Len(cat_out[1].popular) = 1
    /\ Len(cat_out[1].less_popular) = 2

----------------------------------------------------------------------------
\* ImageFeatureAnalyzer.find_common_features (main.py)

\* A dict is a function on its keys; {} is the function with no keys
EmptyDict == <<>>

WhiteSpace == {" ", "\n", "\t"}

\* str.strip()
RECURSIVE StripLeft(_)
StripLeft(str) ==
    IF str # <<>> /\ Head(str) \in WhiteSpace THEN StripLeft(Tail(str)) ELSE str

RECURSIVE StripRight(_)
StripRight(str) ==
    IF str # <<>> /\ str[Len(str)] \in WhiteSpace
    THEN StripRight(SubSeq(str, 1, Len(str) - 1))
    ELSE str

Strip(str) == StripRight(StripLeft(str))

\* line 229: item_lower = str(item).lower().strip()
ItemLower_NoStrip(item) == Lower(item)

ItemLower(item) == Strip(Lower(item))

\* lines 230-232: one more occurrence of item in the counts of a category,
\* a list of [feature, frequency] in the order of first occurrence
CountItem(counts, item) ==
    IF \E i \in 1..Len(counts) : counts[i].feature = item
    THEN [i \in 1..Len(counts) |->
             IF counts[i].feature = item
             THEN [feature |-> item, frequency |-> counts[i].frequency + 1]
             ELSE counts[i]]
    ELSE Append(counts, [feature |-> item, frequency |-> 1])

\* lines 228-232: the items of one list
RECURSIVE CountItems(_, _)
CountItems(counts, items) ==
    IF items = <<>> THEN counts
    ELSE CountItems(CountItem(counts, ItemLower(Head(items))), Tail(items))

\* lines 221-232: feature_frequency[category] after the first n posts
RECURSIVE FeatureFrequency(_, _, _)
FeatureFrequency(analyzed, category, n) ==
    IF n = 0 THEN <<>>
    ELSE LET features == analyzed[n].features
             before == FeatureFrequency(analyzed, category, n - 1)
         IN  IF category \in DOMAIN features
             THEN CountItems(before, features[category])
             ELSE before

\* lines 224-226: the categories seen in the analysed posts
CategoriesSeen(analyzed) ==
    UNION {DOMAIN analyzed[i].features : i \in 1..Len(analyzed)}

\* lines 240-241: percentage >= threshold, with percentage = count / total_posts
AtLeastThreshold(count, total_posts, thr) ==
    count * thr.den >= thr.num * total_posts

\* line 248: sort(key=frequency, reverse=True), stable
RECURSIVE InsertByFrequency(_, _)
InsertByFrequency(sorted, x) ==
    IF sorted = <<>> THEN <<x>>
    ELSE IF Head(sorted).frequency >= x.frequency
         THEN <<Head(sorted)>> \o InsertByFrequency(Tail(sorted), x)
         ELSE <<x>> \o sorted

RECURSIVE SortedByFrequency(_)
SortedByFrequency(xs) ==
    IF xs = <<>> THEN <<>>
    ELSE InsertByFrequency(SortedByFrequency(SubSeq(xs, 1, Len(xs) - 1)),
                           xs[Len(xs)])

\* lines 214-250. The entries are [feature, frequency]; their third field,
\* 'percentage', a rounded float, is left out.
FindCommonFeatures(analyzed, thr) ==
    IF analyzed = <<>> THEN EmptyDict
    ELSE LET total_posts == Len(analyzed)
             Common(x) == AtLeastThreshold(x.frequency, total_posts, thr)
         IN  [category \in CategoriesSeen(analyzed) |->
                 SortedByFrequency(
                     SelectSeq(FeatureFrequency(analyzed, category, total_posts),
                               Common))]

FindCommon ==
    /\ common_out = <<>>
    /\ common_out' = <<FindCommonFeatures(analyzed_posts, threshold)>>
    /\ UNCHANGED <<cat_posts, top_percentage, cat_out, analyzed_posts,
                   threshold, text, code_out>>
    /\ UNCHANGED <<limiterVars, analyzerVars, fsVars, apiVars,
                   parseVars, searchVars>>

MaxAnalyzed == 2       \* posts handed to find_common_features

\* The items of the model: "Red", " reD " and "blue"
ItemRed == <<"R", "e", "d">>
ItemRedPadded == <<" ", "r", "e", "D", " ">>
ItemBlue == <<"b", "l", "u", "e">>

ListsOfStyle == {<<>>, <<ItemRed>>, <<ItemBlue>>, <<ItemRedPadded, ItemBlue>>,
                 <<ItemRed, ItemRedPadded>>}
ListsOfPalette == {<<ItemRed>>, <<ItemBlue, ItemBlue>>}
Categories == {"visual_style", "color_palette"}

\* The features dicts of the model: each category is absent or has a list,
\* and the dict is not empty (analyze_posts_batch keeps truthy features only)
FeatureDicts ==
    {d \in UNION {[cs -> ListsOfStyle \cup ListsOfPalette] :
                     cs \in (SUBSET Categories) \ {{}}} :
        /\ "visual_style" \in DOMAIN d => d["visual_style"] \in ListsOfStyle
        /\ "color_palette" \in DOMAIN d => d["color_palette"] \in ListsOfPalette}

AnalyzedPool == {[features |-> d] : d \in FeatureDicts}

\* threshold tried: 0, 0.3 (the default), 0.5 and 1.0
Thresholds == {[num |-> 0, den |-> 1], [num |-> 3, den |-> 10],
               [num |-> 1, den |-> 2], [num |-> 1, den |-> 1]}

FeaturesInit ==
    /\ LimiterIdle
    /\ AnalyzerIdle
    /\ CategorizeIdle
    /\ ExtractIdle
    /\ FsIdle
    /\ ApiIdle
    /\ ParseIdle
    /\ SearchIdle
    /\ analyzed_posts \in SeqsUpTo(AnalyzedPool, MaxAnalyzed)
    /\ threshold \in Thresholds
    /\ common_out = <<>>

FeaturesNext == FindCommon

FeaturesSpec == FeaturesInit /\ [][FeaturesNext]_vars

\* The features of the model, lower-cased and trimmed, and the items that
\* are each of them
FeatureRed == <<"r", "e", "d">>
FeatureBlue == <<"b", "l", "u", "e">>
FeaturesKnown == {FeatureRed, FeatureBlue}
ItemsOf(f) == IF f = FeatureRed THEN {ItemRed, ItemRedPadded} ELSE {ItemBlue}

\* the occurrences of feature f in category c across the analysed posts
OccurrencesIn(c, f) ==
    Cardinality(UNION {
        IF c \in DOMAIN analyzed_posts[i].features
        THEN {<<i, k>> : k \in {k \in 1..Len(analyzed_posts[i].features[c]) :
                                  analyzed_posts[i].features[c][k] \in ItemsOf(f)}}
        ELSE {} : i \in 1..Len(analyzed_posts)})

\* find_common_features reports feature f under category c
Reported(c, f) ==
    /\ c \in DOMAIN common_out[1]
    /\ \E i \in 1..Len(common_out[1][c]) : common_out[1][c][i].feature = f

\* C8, as claimed: a feature is reported under a category if and only if its
\* occurrences in that category divided by the number of analysed posts are
\* at least threshold; for no analysed posts the result is empty.
C8_ReportedIffFrequent ==
    common_out # <<>> =>
        IF analyzed_posts = <<>> THEN common_out[1] = EmptyDict
        ELSE \A c \in Categories, f \in FeaturesKnown :
                 Reported(c, f) <=>
                     OccurrencesIn(c, f) * threshold.den
                         >= threshold.num * Len(analyzed_posts)

\* C8, amended: a feature that occurs at least once in a category is
\* reported under it if and only if its occurrences in that category divided
\* by the number of analysed posts are at least threshold; a feature that
\* does not occur in a category is not reported under it; for no analysed
\* posts the result is empty.
C8_ReportedIffSeenAndFrequent ==
    common_out # <<>> =>
        IF analyzed_posts = <<>> THEN common_out[1] = EmptyDict
        ELSE \A c \in Categories, f \in FeaturesKnown :
                 Reported(c, f) <=>
                     /\ OccurrencesIn(c, f) >= 1
                     /\ OccurrencesIn(c, f) * threshold.den
                            >= threshold.num * Len(analyzed_posts)

\* two posts, "Red" in one and " reD " in the other, at threshold 1.0: red
\* is in every post and is reported, blue is in one and is not
C8_Witness ==
    /\ common_out # <<>>
    /\ Len(analyzed_posts) = 2
    /\ threshold = [num |-> 1, den |-> 1]
    /\ "visual_style" \in DOMAIN analyzed_posts[1].features
    /\ "visual_style" \in DOMAIN analyzed_posts[2].features
    /\ analyzed_posts[1].features["visual_style"] = <<ItemRed>>
    /\ analyzed_posts[2].features["visual_style"] = <<ItemRedPadded, ItemBlue>>
    /\ Reported("visual_style", FeatureRed)
    /\ ~Reported("visual_style", FeatureBlue)

----------------------------------------------------------------------------
\* extract_code_from_response (main.py lines 434-451, chatbot.py lines 165-182)

\* The character U+0060, which a TLA+ string cannot hold
BackQuote == "BQ"

Fence == <<BackQuote, BackQuote, BackQuote>>
NewLine == <<"\n">>

\* (?:javascript|js|tsx|jsx|typescript|ts)
LanguageTags == {
    <<"j", "a", "v", "a", "s", "c", "r", "i", "p", "t">>,
    <<"j", "s">>,
    <<"t", "s", "x">>,
    <<"j", "s", "x">>,
    <<"t", "y", "p", "e", "s", "c", "r", "i", "p", "t">>,
    <<"t", "s">> }

\* What the two patterns match before their group: ```tag\n and ```\n
TaggedOpeners == {Fence \o tag \o NewLine : tag \in LanguageTags}
UntaggedOpeners == {Fence \o NewLine}

\* (.*?)``` with re.DOTALL from position j on: the position of the first
\* closing fence at or after j, 0 when there is none
CloseFrom(txt, j) ==
    IF \E k \in j..Len(txt) : HasAt(txt, Fence, k)
    THEN CHOOSE k \in j..Len(txt) :
             /\ HasAt(txt, Fence, k)
             /\ \A m \in j..(k - 1) : ~HasAt(txt, Fence, m)
    ELSE 0

\* re.findall(pattern, text, re.DOTALL) from position i on: the groups of the
\* matches, found left to right, each search starting where the last match
\* ended
RECURSIVE FindAll(_, _, _)
FindAll(openers, txt, i) ==
    IF i > Len(txt) THEN <<>>
    ELSE IF \E o \in openers : HasAt(txt, o, i) /\ CloseFrom(txt, i + Len(o)) # 0
         THEN LET o == CHOOSE o \in openers :
                           HasAt(txt, o, i) /\ CloseFrom(txt, i + Len(o)) # 0
                  close == CloseFrom(txt, i + Len(o))
              IN  <<SubSeq(txt, i + Len(o), close - 1)>>
                      \o FindAll(openers, txt, close + Len(Fence))
         ELSE FindAll(openers, txt, i + 1)

\* '\n\n'.join(code_blocks)
RECURSIVE JoinBlocks(_)
JoinBlocks(blocks) ==
    IF Len(blocks) = 1 THEN blocks[1]
    ELSE blocks[1] \o NewLine \o NewLine \o JoinBlocks(Tail(blocks))

\* lines 443-446: the matches of the first pattern, then those of the second
CodeBlocks_UntaggedFirst(txt) ==
    FindAll(UntaggedOpeners, txt, 1) \o FindAll(TaggedOpeners, txt, 1)

CodeBlocks(txt) ==
    FindAll(TaggedOpeners, txt, 1) \o FindAll(UntaggedOpeners, txt, 1)

\* lines 434-451: <<>> is None, <<code>> a str
ExtractCodeFromResponse(txt) ==
    IF txt = <<>> THEN <<>>
    ELSE LET code_blocks == CodeBlocks(txt)
         IN  IF code_blocks # <<>> THEN <<JoinBlocks(code_blocks)>> ELSE <<>>

ExtractCode ==
    /\ code_out = <<>>
    /\ code_out' = <<ExtractCodeFromResponse(text)>>
    /\ UNCHANGED <<cat_posts, top_percentage, cat_out, analyzed_posts,
                   threshold, common_out, text>>
    /\ UNCHANGED <<limiterVars, analyzerVars, fsVars, apiVars,
                   parseVars, searchVars>>

MaxPieces == 4         \* pieces a text of the model is made of

\* The pieces: ```js\n  ```tsx\n  ```py\n  ```\n  a\n```  ```  \n
Pieces == {
    Fence \o <<"j", "s">> \o NewLine,
    Fence \o <<"t", "s", "x">> \o NewLine,
    Fence \o <<"p", "y">> \o NewLine,
    Fence \o NewLine,
    <<"a">> \o NewLine \o Fence,
    Fence,
    NewLine }

RECURSIVE Flatten(_)
Flatten(ps) == IF ps = <<>> THEN <<>> ELSE Head(ps) \o Flatten(Tail(ps))

Texts == {Flatten(ps) : ps \in SeqsUpTo(Pieces, MaxPieces)}

ExtractInit ==
    /\ LimiterIdle
    /\ AnalyzerIdle
    /\ CategorizeIdle
    /\ FeaturesIdle
    /\ FsIdle
    /\ ApiIdle
    /\ ParseIdle
    /\ SearchIdle
    /\ text \in Texts
    /\ code_out = <<>>

ExtractNext == ExtractCode

ExtractSpec == ExtractInit /\ [][ExtractNext]_vars

\* A fenced block of a pattern can start at i: an opener is there and a fence
\* comes after it; the block ends behind the first such fence
OpenerLength(openers, i) ==
    Len(CHOOSE o \in openers : HasAt(text, o, i))

FenceAfter(openers, i) ==
    {k \in (i + OpenerLength(openers, i))..Len(text) : HasAt(text, Fence, k)}

CanStart(openers, i) ==
    /\ \E o \in openers : HasAt(text, o, i)
    /\ FenceAfter(openers, i) # {}

FirstFence(openers, i) ==
    CHOOSE k \in FenceAfter(openers, i) : \A m \in FenceAfter(openers, i) : k <= m

\* The blocks of a pattern, in order of appearance: a block starts at the
\* first position behind the block before it where one can start
BlockStarts(openers) ==
    LET IsStart[i \in 1..Len(text)] ==
            /\ CanStart(openers, i)
            /\ \A k \in 1..(i - 1) :
                   IsStart[k] => FirstFence(openers, k) + Len(Fence) <= i
    IN  {i \in 1..Len(text) : IsStart[i]}

BodyAt(openers, i) ==
    SubSeq(text, i + OpenerLength(openers, i), FirstFence(openers, i) - 1)

RECURSIVE BodiesInOrder(_, _)
BodiesInOrder(openers, starts) ==
    IF starts = {} THEN <<>>
    ELSE LET first == CHOOSE i \in starts : \A k \in starts : i <= k
         IN  <<BodyAt(openers, first)>> \o BodiesInOrder(openers, starts \ {first})

RECURSIVE Joined(_, _)
Joined(blocks, separator) ==
    IF blocks = <<>> THEN <<>>
    ELSE IF Len(blocks) = 1 THEN blocks[1]
         ELSE blocks[1] \o separator \o Joined(Tail(blocks), separator)

\* C10: None when the text is empty or has no fenced block of either pattern;
\* otherwise the block bodies joined by a blank line, the language-tagged
\* blocks in order of appearance, then the matches of the untagged pattern in
\* order of appearance.
C10_ExtractedCode ==
    code_out # <<>> =>
        LET tagged == BodiesInOrder(TaggedOpeners, BlockStarts(TaggedOpeners))
            untagged == BodiesInOrder(UntaggedOpeners, BlockStarts(UntaggedOpeners))
        IN  IF text = <<>> \/ tagged \o untagged = <<>>
            THEN code_out[1] = <<>>
            ELSE code_out[1] = <<Joined(tagged \o untagged, <<"\n", "\n">>)>>

\* an untagged block before a tagged one: the tagged body comes first
C10_Witness ==
    /\ code_out # <<>>
    /\ text = Fence \o NewLine \o <<"a">> \o NewLine \o Fence
                \o Fence \o <<"j", "s">> \o NewLine \o Fence
    /\ code_out[1] = << <<"\n", "\n", "a", "\n">> >>

----------------------------------------------------------------------------
\* The uploads folder (compliance.py)

\* A file is [name, mtime, content]; a name is [kind, stamp, ext], for
\* f"{kind}_{timestamp}{ext}"; content is the number of the request that
\* wrote it. Time is counted in ticks of the file system's timestamps, and
\* every handler that writes a file does so at a tick of its own.
TicksPerSecond == 2    \* ticks in one second of strftime("%Y%m%d_%H%M%S")
MaxTicks == 3          \* ticks that pass with no request
MaxFsRequests == 3     \* requests to the uploads handlers

\* datetime.now().strftime("%Y%m%d_%H%M%S")
Timestamp(now) == now \div TicksPerSecond

\* open(file_path, "wb") and write: the file is created or overwritten
WriteFile(fs, name, now, content) ==
    {f \in fs : f.name # name}
        \cup {[name |-> name, mtime |-> now, content |-> content]}

\* compliance.py lines 512-517
AllowedTypes == {"application/pdf", "application/msword",
                 "application/vnd.openxmlformats-officedocument.wordprocessingml.document",
                 "text/plain"}
ContentTypes == {"application/pdf", "text/plain", "image/png"}
Extensions == {".pdf", ".txt"}

\* POST /brand-guidelines, lines 504-557
UploadBrandGuidelines(content_type, ext) ==
    /\ requests_done < MaxFsRequests
    /\ requests_done' = requests_done + 1
    /\ guideline_files' = <<>>
    /\ guideline_file' = <<>>
    /\ IF content_type \notin AllowedTypes
       THEN /\ response' = 400
            /\ UNCHANGED <<files, fs_time, uploaded_last, written>>
       ELSE LET name == [kind |-> "brand_guidelines",
                         stamp |-> Timestamp(fs_time), ext |-> ext]
            IN  /\ fs_time' = fs_time + 1
                /\ files' = WriteFile(files, name, fs_time', requests_done')
                /\ written' = Append(written, name)
                /\ uploaded_last' = <<requests_done'>>
                /\ response' = 200
    /\ UNCHANGED <<limiterVars, analyzerVars, pureVars, apiVars, parseVars>>
    /\ UNCHANGED <<image_results, ai_text, copyright_out>>

\* line 370: UPLOADS_DIR.glob("brand_guidelines*")
GlobGuidelines(fs) == {f \in fs : f.name.kind = "brand_guidelines"}

\* line 386: max(guideline_files, key=lambda p: p.stat().st_mtime); of files
\* with the same mtime, max takes the first in the order of glob
NewestFiles_Oldest(fs) == {f \in fs : \A g \in fs : f.mtime <= g.mtime}

NewestFiles(fs) == {f \in fs : \A g \in fs : g.mtime <= f.mtime}

\* POST /compliance-check, lines 341-441. image_ok: PIL opens the upload;
\* load_ok: load_brand_guidelines reads the file; ai_ok: check_compliance
\* returns no error.
ComplianceCheck(image_ok, load_ok, ai_ok) ==
    /\ requests_done < MaxFsRequests
    /\ requests_done' = requests_done + 1
    /\ fs_time' = fs_time + 1
    /\ files' = WriteFile(files,
                          [kind |-> "compliance_check",
                           stamp |-> Timestamp(fs_time), ext |-> ".png"],
                          fs_time', requests_done')
    /\ written' = Append(written, [kind |-> "compliance_check",
                                   stamp |-> Timestamp(fs_time), ext |-> ".png"])
    /\ IF ~image_ok
       THEN /\ response' = 500
            /\ guideline_files' = <<>>
            /\ guideline_file' = <<>>
       ELSE /\ guideline_files' = <<GlobGuidelines(files')>>
            /\ IF GlobGuidelines(files') = {}
               THEN /\ guideline_file' = <<>>
                    /\ response' = 200
               ELSE /\ \E f \in NewestFiles(GlobGuidelines(files')) :
                           guideline_file' = <<f>>
                    /\ response' = IF load_ok /\ ai_ok THEN 200 ELSE 500
    /\ UNCHANGED uploaded_last
    /\ UNCHANGED <<limiterVars, analyzerVars, pureVars, apiVars, parseVars>>
    /\ UNCHANGED <<image_results, ai_text, copyright_out>>

\* Time passes with no request
Tick ==
    /\ fs_time < MaxTicks
    /\ fs_time' = fs_time + 1
    /\ UNCHANGED <<files, requests_done, guideline_files, guideline_file,
                   uploaded_last, response>>
    /\ UNCHANGED <<limiterVars, analyzerVars, pureVars, apiVars, parseVars>>
    /\ UNCHANGED <<image_results, ai_text, copyright_out>>
    /\ UNCHANGED written

\* The copyright check (compliance.py)

MaxResults == 5        \* image results of one reverse image search

\* lines 189-195: COPYRIGHT_SITES, in the order of the list
CopyrightSites == <<
    <<"s", "h", "u", "t", "t", "e", "r", "s", "t", "o", "c", "k", ".", "c",
      "o", "m">>,
    <<"g", "e", "t", "t", "y", "i", "m", "a", "g", "e", "s", ".", "c", "o",
      "m">>,
    <<"i", "s", "t", "o", "c", "k", "p", "h", "o", "t", "o", ".", "c", "o",
      "m">>,
    <<"a", "d", "o", "b", "e", ".", "s", "t", "o", "c", "k">>,
    <<"d", "e", "p", "o", "s", "i", "t", "p", "h", "o", "t", "o", "s", ".",
      "c", "o", "m">>,
    <<"d", "r", "e", "a", "m", "s", "t", "i", "m", "e", ".", "c", "o", "m">>,
    <<"a", "l", "a", "m", "y", ".", "c", "o", "m">>,
    <<"1", "2", "3", "r", "f", ".", "c", "o", "m">>,
    <<"s", "t", "o", "c", "k", "s", "y", ".", "c", "o", "m">>,
    <<"p", "o", "n", "d", "5", ".", "c", "o", "m">>,
    <<"p", "i", "x", "a", "b", "a", "y", ".", "c", "o", "m">>,
    <<"u", "n", "s", "p", "l", "a", "s", "h", ".", "c", "o", "m">>,
    <<"p", "e", "x", "e", "l", "s", ".", "c", "o", "m">>,
    <<"f", "r", "e", "e", "p", "i", "k", ".", "c", "o", "m">>,
    <<"v", "e", "c", "t", "e", "e", "z", "y", ".", "c", "o", "m">>,
    <<"c", "a", "n", "v", "a", ".", "c", "o", "m">>,
    <<"e", "n", "v", "a", "t", "o", ".", "c", "o", "m">>,
    <<"c", "r", "e", "a", "t", "i", "v", "e", "m", "a", "r", "k", "e", "t",
      ".", "c", "o", "m">> >>

\* lines 236-240: the first site of the list that is in the link or in the
\* source of the result, without regard to case; <<>> when there is none
RECURSIVE MatchedSiteFrom(_, _)
MatchedSiteFrom(image_result, k) ==
    IF k > Len(CopyrightSites) THEN <<>>
    ELSE IF \/ Contains(Lower(image_result.link), Lower(CopyrightSites[k]))
            \/ Contains(Lower(image_result.source), Lower(CopyrightSites[k]))
    THEN <<CopyrightSites[k]>>
    ELSE MatchedSiteFrom(image_result, k + 1)

MatchedSite(image_result) == MatchedSiteFrom(image_result, 1)

\* the links and sources of the image results and the answers of the model
LinkStock ==
    <<"w", "w", "w", ".", "S", "h", "u", "t", "t", "e", "r", "s", "t", "o",
      "c", "k", ".", "c", "o", "m", "/", "a">>
SourceStock ==
    <<"S", "h", "u", "t", "t", "e", "r", "s", "t", "o", "c", "k">>
LinkOther ==
    <<"e", "x", "a", "m", "p", "l", "e", ".", "o", "r", "g", "/", "p">>
SourcePixabay ==
    <<"P", "i", "x", "a", "b", "a", "y", ".", "c", "o", "m">>
SourceOther ==
    <<"E", "x", "a", "m", "p", "l", "e">>
AiMixedCase ==
    <<"C", "o", "p", "y", "r", "i", "g", "h", "t", " ", "S", "t", "a", "t",
      "u", "s", ":", " ", "R", "i", "s", "k", "y">>
AiShortSafe ==
    <<"S", "t", "a", "t", "u", "s", ":", " ", "S", "a", "f", "e">>
AiNoStatus ==
    <<"R", "I", "S", "K", " ", "L", "E", "V", "E", "L", ":", " ", "L", "O",
      "W">>

\* image results: a stock site in the link, in the source only, in neither
ResultStockLink == [link |-> LinkStock, source |-> SourceStock]
ResultStockSource == [link |-> LinkOther, source |-> SourcePixabay]
ResultOther == [link |-> LinkOther, source |-> SourceOther]

ImageResults == {ResultStockLink, ResultStockSource, ResultOther}

\* the matched site of every image result of the model, computed once
MatchedSiteOf ==
    [image_result \in ImageResults |-> MatchedSite(image_result)]

\* lines 229-249: copyright_found, the matched results with their position
RECURSIVE CopyrightFound(_, _)
CopyrightFound(found, i) ==
    IF i > Len(found) THEN <<>>
    ELSE IF MatchedSiteOf[found[i]] # <<>>
    THEN <<[position |-> i, site |-> MatchedSiteOf[found[i]][1]]>>
             \o CopyrightFound(found, i + 1)
    ELSE CopyrightFound(found, i + 1)

\* lines 186-276: check_copyright_sources, when the search gave an answer
\* (all_results, the first ten results, is left out)
CheckCopyrightSources(found) ==
    IF found = <<>>
    THEN [total_results |-> 0, copyright_results |-> <<>>]
    ELSE [total_results |-> Len(found),
          copyright_results |-> CopyrightFound(found, 1)]

\* the literals of lines 649-663
StatusCopyrighted ==
    <<"S", "T", "A", "T", "U", "S", ":", " ", "C", "O", "P", "Y", "R", "I",
      "G", "H", "T", "E", "D">>
StatusRisky ==
    <<"S", "T", "A", "T", "U", "S", ":", " ", "R", "I", "S", "K", "Y">>
StatusSafe ==
    <<"S", "T", "A", "T", "U", "S", ":", " ", "S", "A", "F", "E">>
LongStatusCopyrighted ==
    <<"C", "O", "P", "Y", "R", "I", "G", "H", "T", " ", "S", "T", "A", "T",
      "U", "S", ":", " ", "C", "O", "P", "Y", "R", "I", "G", "H", "T", "E",
      "D">>
LongStatusRisky ==
    <<"C", "O", "P", "Y", "R", "I", "G", "H", "T", " ", "S", "T", "A", "T",
      "U", "S", ":", " ", "R", "I", "S", "K", "Y">>
LongStatusSafe ==
    <<"C", "O", "P", "Y", "R", "I", "G", "H", "T", " ", "S", "T", "A", "T",
      "U", "S", ":", " ", "S", "A", "F", "E">>
Unavailable ==
    <<"A", "I", " ", "a", "n", "a", "l", "y", "s", "i", "s", " ", "u", "n",
      "a", "v", "a", "i", "l", "a", "b", "l", "e">>

\* lines 648-649: `if not ai_analysis`: None and "" become the notice
AiAnalysis(returned) ==
    IF returned = <<>> \/ returned = << <<>> >> THEN Unavailable
    ELSE returned[1]

\* lines 656-664: ai_status
AiStatus(ai_analysis) ==
    LET ai_upper == Upper(ai_analysis)
    IN  IF \/ Contains(ai_upper, LongStatusCopyrighted)
           \/ Contains(ai_upper, StatusCopyrighted)
        THEN "copyrighted"
        ELSE IF \/ Contains(ai_upper, LongStatusRisky)
                \/ Contains(ai_upper, StatusRisky)
        THEN "risky"
        ELSE IF \/ Contains(ai_upper, LongStatusSafe)
                \/ Contains(ai_upper, StatusSafe)
        THEN "safe"
        ELSE "unknown"

\* lines 667-682: the final status
FinalStatus_MoreThanFive(copyright_count, ai_status, total_results) ==
    IF copyright_count > 5 \/ ai_status = "copyrighted" THEN "copyrighted"
    ELSE IF copyright_count > 0 \/ ai_status = "risky" THEN "risky"
    ELSE IF total_results > 0 THEN "safe"
    ELSE "unknown"

FinalStatus(copyright_count, ai_status, total_results) ==
    IF copyright_count >= 5 \/ ai_status = "copyrighted" THEN "copyrighted"
    ELSE IF copyright_count > 0 \/ ai_status = "risky" THEN "risky"
    ELSE IF total_results > 0 THEN "safe"
    ELSE "unknown"

\* what analyze_copyright_with_ai returns: None (<<>>) or a text
AiAnswers == {
    LongStatusSafe, LongStatusRisky, LongStatusCopyrighted,
    AiMixedCase, AiShortSafe, AiNoStatus,
    LongStatusSafe \o NewLine \o StatusCopyrighted,
    <<>> }

\* ai_status of every answer of the model, computed once
AiStatusOf ==
    [returned \in {<<>>} \cup {<<t>> : t \in AiAnswers} |->
        AiStatus(AiAnalysis(returned))]

\* POST /copyright-check, lines 608-717. imgbb_ok: upload_to_imgbb returns a
\* URL; search_ok: check_copyright_sources returns no None. The search
\* gives image_results and the model ai_text.
CopyrightCheck(imgbb_ok, search_ok) ==
    /\ requests_done < MaxFsRequests
    /\ requests_done' = requests_done + 1
    /\ fs_time' = fs_time + 1
    /\ LET name == [kind |-> "copyright_check",
                    stamp |-> Timestamp(fs_time), ext |-> ".png"]
       IN  /\ files' = WriteFile(files, name, fs_time', requests_done')
           /\ written' = Append(written, name)
    /\ guideline_files' = <<>>
    /\ guideline_file' = <<>>
    /\ IF ~imgbb_ok \/ ~search_ok
       THEN /\ response' = 500
            /\ copyright_out' = <<>>
       ELSE LET copyright_data == CheckCopyrightSources(image_results)
                copyright_count == Len(copyright_data.copyright_results)
                total_results == copyright_data.total_results
                ai_status == AiStatusOf[ai_text]
            IN  /\ response' = 200
                /\ copyright_out' =
                       <<[status |-> FinalStatus(copyright_count, ai_status,
                                                 total_results),
                          copyright_count |-> copyright_count,
                          total_results |-> total_results]>>
    /\ UNCHANGED <<uploaded_last, image_results, ai_text>>
    /\ UNCHANGED <<limiterVars, analyzerVars, pureVars, apiVars, parseVars>>

UploadsInit ==
    /\ LimiterIdle
    /\ AnalyzerIdle
    /\ PureIdle
    /\ FsIdle
    /\ ApiIdle
    /\ ParseIdle
    /\ SearchIdle

UploadsNext ==
    \/ \E content_type \in ContentTypes, ext \in Extensions :
           UploadBrandGuidelines(content_type, ext)
    \/ \E image_ok \in BOOLEAN, load_ok \in BOOLEAN, ai_ok \in BOOLEAN :
           ComplianceCheck(image_ok, load_ok, ai_ok)
    \/ \E imgbb_ok \in BOOLEAN, search_ok \in BOOLEAN :
           CopyrightCheck(imgbb_ok, search_ok)
    \/ Tick

UploadsSpec == UploadsInit /\ [][UploadsNext]_vars

----------------------------------------------------------------------------
\* The routes of the application (main.py, compliance.py)

\* A path is the sequence of its segments: /api/health is <<"api", "health">>
\* and / is <<>>. A route is [method, path, endpoint].

\* compliance.py: the routes of router
RouterRoutes ==
    { [method |-> "POST", path |-> <<"compliance-check">>,
       endpoint |-> "compliance_check"],
      [method |-> "POST", path |-> <<"brand-image">>,
       endpoint |-> "upload_brand_image"],
      [method |-> "POST", path |-> <<"brand-guidelines">>,
       endpoint |-> "upload_brand_guidelines"],
      [method |-> "GET", path |-> <<"uploads", "list">>,
       endpoint |-> "list_all_uploads"],
      [method |-> "POST", path |-> <<"copyright-check">>,
       endpoint |-> "copyright_check"] }

\* main.py line 357: the prefix under which the router is included
CompliancePrefix == <<"api", "compliance">>

\* app.include_router(router, prefix=...): every path gets the prefix
IncludeRouter(routes, prefix) ==
    {[r EXCEPT !.path = prefix \o r.path] : r \in routes}

\* main.py: the routes declared on app
AppOwnRoutes ==
    { [method |-> "POST", path |-> <<"api", "generate-design">>,
       endpoint |-> "generate_design"],
      [method |-> "GET", path |-> <<"auth", "login">>, endpoint |-> "auth_login"],
      [method |-> "GET", path |-> <<"callback">>,
       endpoint |-> "callback_redirect"],
      [method |-> "GET", path |-> <<"auth", "callback">>,
       endpoint |-> "auth_callback"],
      [method |-> "POST", path |-> <<"post">>, endpoint |-> "post_linkedin"],
      [method |-> "GET", path |-> <<"status">>, endpoint |-> "status"],
      [method |-> "GET", path |-> <<"test-jira">>,
       endpoint |-> "test_jira_connection"],
      [method |-> "POST", path |-> <<"notify">>,
       endpoint |-> "send_team_notification"],
      [method |-> "POST", path |-> <<"api", "slack", "send">>,
       endpoint |-> "send_slack_message"],
      [method |-> "POST", path |-> <<"api", "generate-image">>,
       endpoint |-> "generate_image_from_text"],
      [method |-> "POST", path |-> <<"api", "analyze-past-posts">>,
       endpoint |-> "analyze_past_posts"],
      [method |-> "GET", path |-> <<>>, endpoint |-> "read_root"],
      [method |-> "GET", path |-> <<"api", "health">>,
       endpoint |-> "health_check"] }

\* the routes of app: those of the router under its prefix, and app's own
AppRoutes == IncludeRouter(RouterRoutes, CompliancePrefix) \cup AppOwnRoutes

\* main.py line 361: app.mount("/uploads", StaticFiles(...))
MountPath == <<"uploads">>

\* What the application does with a request: the endpoint of the route that
\* matches the path and the method, the static files under the mount, 405
\* when only the method does not match, or else 404
Resolve(method, path) ==
    IF \E r \in AppRoutes : r.path = path /\ r.method = method
    THEN (CHOOSE r \in AppRoutes : r.path = path /\ r.method = method).endpoint
    ELSE IF \E r \in AppRoutes : r.path = path
    THEN "method_not_allowed"
    ELSE IF Len(path) >= 1 /\ SubSeq(path, 1, 1) = MountPath
    THEN "static_files"
    ELSE "not_found"

----------------------------------------------------------------------------
\* The handlers of main.py. A response is [status, detail, body]: detail is
\* the detail of an HTTPException, in parts, and body the JSON of a success
\* (NoBody when there is none). Requests are well formed: the parameters a
\* handler declares are present. One request is handled at a time.

MaxTemp == 2    \* requests to POST /post that reach the temporary file

TokenValues == {"tokA", "tokB"}        \* access tokens LinkedIn gives out
StateValues == {"s1", "s2"}            \* values of secrets.token_urlsafe(16)
ForgedState == "forged"                \* a state no login has issued
CallbackStates == StateValues \cup {ForgedState}

\* How a request to another service ends. kind is "ok" (the status is no
\* error and the body is what the handler reads), "http_error" (a status of
\* 400 or more), "bad_body" (no error status, but the body is not JSON or
\* lacks what the handler reads) or "network_error" (no response at all).
OkReply == [kind |-> "ok", status |-> 200]
HttpError(status) == [kind |-> "http_error", status |-> status]
BadBody == [kind |-> "bad_body", status |-> 200]
NetworkError == [kind |-> "network_error", status |-> 0]
ErrorStatuses == {401, 500}
Replies == {OkReply, BadBody, NetworkError} \cup {HttpError(st) : st \in ErrorStatuses}

NoBody == [none |-> TRUE]

\* raise HTTPException(status_code, detail) that reaches FastAPI
HTTPException(status_code, detail) ==
    [status |-> status_code, detail |-> detail, body |-> NoBody]

\* a return value that FastAPI serialises: status 200
JSONResponse(body) == [status |-> 200, detail |-> <<>>, body |-> body]

\* an exception no handler catches: Starlette answers 500
UnhandledException ==
    [status |-> 500, detail |-> <<"Internal Server Error">>, body |-> NoBody]

\* a RedirectResponse or an HTMLResponse: a status and what it shows
PageResponse(status_code, page) ==
    [status |-> status_code, detail |-> <<>>, body |-> page]

\* str(status_code) for the statuses of this model
StatusText(status_code) ==
    CASE status_code = 400 -> "400"
      [] status_code = 401 -> "401"
      [] status_code = 403 -> "403"
      [] status_code = 404 -> "404"
      [] status_code = 500 -> "500"
      [] status_code = 502 -> "502"
      [] OTHER -> "status"

\* str(e) of an HTTPException e: f"{status_code}: {detail}"
StrOfHTTPException(e) == <<StatusText(e.status), ": ">> \o e.detail

\* lines 508-523: load_config and get_access_token. config.json is
\* [client, access_token]: client says that client_id, client_secret and
\* redirect_uri are set, access_token is <<>> when the key is absent (also
\* when there is no file) and <<t>> when it holds t.
GetAccessToken(cfg) == cfg.access_token

\* `not access_token` of Python: None and "" are falsy
NoToken_OnlyNone(tok) == tok = <<>>

NoToken(tok) == tok = <<>> \/ tok = <<"">>

\* The state of a request that is about to be handled
Begin(method, path) ==
    /\ post_pc = "idle"
    /\ api_request' = [method |-> method, path |-> path]
    /\ sent' = <<>>
    /\ replies' = <<>>
    /\ created_temp' = {}
    /\ token_before' = config.access_token
    /\ callback_state' = <<>>

\* lines 1255-1275: GET /
ReadRootResponse == JSONResponse([status |-> "running"])

ReadRoot(method, path) ==
    /\ Resolve(method, path) = "read_root"
    /\ Begin(method, path)
    /\ api_response' = ReadRootResponse
    /\ UNCHANGED <<config, post_pc, temp_files, next_temp, issued_states>>
    /\ UNCHANGED <<limiterVars, analyzerVars, pureVars, fsVars, parseVars,
                   searchVars>>

\* lines 1277-1283: GET /api/health
HealthCheckResponse_NeedsToken ==
    IF NoToken(GetAccessToken(config))
    THEN HTTPException(503, <<"not authenticated">>)
    ELSE JSONResponse([status |-> "healthy"])

HealthCheckResponse == JSONResponse([status |-> "healthy"])

HealthCheck(method, path) ==
    /\ Resolve(method, path) = "health_check"
    /\ Begin(method, path)
    /\ api_response' = HealthCheckResponse
    /\ UNCHANGED <<config, post_pc, temp_files, next_temp, issued_states>>
    /\ UNCHANGED <<limiterVars, analyzerVars, pureVars, fsVars, parseVars,
                   searchVars>>

\* compliance.py lines 560-591: GET <prefix>/uploads/list. The files of the
\* folder whose name does not start with a dot; body.files is the set of
\* their names, the order of the list is left out.
Hidden(name) == name.kind = ".gitkeep"

ListAllUploadsResponse(fs) ==
    LET listed == {f \in fs : ~Hidden(f.name)}
    IN  JSONResponse([success |-> TRUE,
                      files |-> {f.name : f \in listed},
                      count |-> Cardinality(listed)])

ListAllUploads(method, path) ==
    /\ Resolve(method, path) = "list_all_uploads"
    /\ Begin(method, path)
    /\ api_response' = ListAllUploadsResponse(files)
    /\ UNCHANGED <<config, post_pc, temp_files, next_temp, issued_states>>
    /\ UNCHANGED <<limiterVars, analyzerVars, pureVars, fsVars, parseVars,
                   searchVars>>

\* A request no route matches: Starlette answers 404, or 405 when a route
\* has the path with another method
NoRoute(method, path) ==
    /\ Resolve(method, path) \in {"not_found", "method_not_allowed"}
    /\ Begin(method, path)
    /\ api_response' =
           IF Resolve(method, path) = "not_found"
           THEN HTTPException(404, <<"Not Found">>)
           ELSE HTTPException(405, <<"Method Not Allowed">>)
    /\ UNCHANGED <<config, post_pc, temp_files, next_temp, issued_states>>
    /\ UNCHANGED <<limiterVars, analyzerVars, pureVars, fsVars, parseVars,
                   searchVars>>

\* lines 529-556: GET /auth/login. The state is made up and sent to the
\* browser in the redirect; the handler keeps no copy of it.
AuthLogin(method, path, state) ==
    /\ Resolve(method, path) = "auth_login"
    /\ Begin(method, path)
    /\ IF ~config.client
       THEN /\ api_response' =
                   HTTPException(400, <<"LinkedIn client_id not configured in config.json">>)
            /\ UNCHANGED issued_states
       ELSE /\ api_response' =
                   PageResponse(307, [location |-> "linkedin_authorization",
                                      state |-> state])
            /\ issued_states' = issued_states \cup {state}
    /\ UNCHANGED <<config, post_pc, temp_files, next_temp>>
    /\ UNCHANGED <<limiterVars, analyzerVars, pureVars, fsVars, parseVars,
                   searchVars>>

\* lines 558-564: GET /callback forwards the browser to /auth/callback
CallbackRedirect(method, path, state) ==
    /\ Resolve(method, path) = "callback_redirect"
    /\ Begin(method, path)
    /\ api_response' =
           PageResponse(307, [location |-> "auth_callback", state |-> state])
    /\ UNCHANGED <<config, post_pc, temp_files, next_temp, issued_states>>
    /\ UNCHANGED <<limiterVars, analyzerVars, pureVars, fsVars, parseVars,
                   searchVars>>

\* lines 596-598: config["access_token"] = access_token; save_config(config)
SaveToken(cfg, access_token) == [cfg EXCEPT !.access_token = <<access_token>>]

\* lines 566-690: GET /auth/callback. token_reply is how the request for
\* the token ends and access_token the token of an "ok" reply; userinfo_reply
\* is how the request for the user's data ends. The handler does not call
\* raise_for_status on the latter: an error status with a JSON body gives
\* the success page.
AuthCallback(method, path, state, token_reply, access_token, userinfo_reply) ==
    /\ Resolve(method, path) = "auth_callback"
    /\ api_request' = [method |-> method, path |-> path]
    /\ post_pc = "idle"
    /\ created_temp' = {}
    /\ token_before' = config.access_token
    /\ callback_state' = <<state>>
    /\ IF ~config.client
       THEN \* lines 574-576: KeyError outside the try
            /\ api_response' = UnhandledException
            /\ sent' = <<>>
            /\ replies' = <<>>
            /\ UNCHANGED config
       ELSE IF token_reply.kind # "ok"
       THEN \* lines 590-594 raise, line 689-690
            /\ api_response' = HTTPException(400, <<"Authentication failed">>)
            /\ sent' = <<"accessToken">>
            /\ replies' = <<token_reply>>
            /\ UNCHANGED config
       ELSE /\ config' = SaveToken(config, access_token)
            /\ sent' = <<"accessToken", "userinfo">>
            /\ replies' = <<token_reply, userinfo_reply>>
            /\ api_response' =
                   IF userinfo_reply.kind \in {"ok", "http_error"}
                   THEN PageResponse(200, [page |-> "LinkedIn Connected!"])
                   ELSE HTTPException(400, <<"Authentication failed">>)
    /\ UNCHANGED <<post_pc, temp_files, next_temp, issued_states>>
    /\ UNCHANGED <<limiterVars, analyzerVars, pureVars, fsVars, parseVars,
                   searchVars>>

\* POST /post, lines 696-818. The handler is followed step by step: post_pc
\* is "idle" between requests and else names the step it is about to do.

\* a userinfo answer that is JSON without the key 'sub'
NoSub == [kind |-> "no_sub", status |-> 200]

\* Does the step raise? raise_for_status raises on an error status, requests
\* raises when there is no response, and reading the body raises when it is
\* not what the handler expects (the PUT of the image reads no body).
Raises_NoRaiseForStatus(reply) == reply.kind \in {"network_error", "bad_body"}

Raises(reply) == reply.kind \in {"http_error", "network_error", "bad_body"}

\* lines 812-818: what the two except clauses make of an exception raised in
\* the try. str_e is str(e) of an exception that is no requests HTTPError.
ExceptHTTPError(reply) ==
    HTTPException(reply.status, <<"LinkedIn API error">>)

ExceptException(str_e) == HTTPException(500, <<"Error: ">> \o str_e)

ExceptClauses(reply) ==
    IF reply.kind = "http_error" THEN ExceptHTTPError(reply)
    ELSE ExceptException(<<reply.kind>>)

\* lines 806-810: the finally clause deletes the temporary file
Unlink(temps, created) == temps \ created

\* lines 709-716
PostBegin(method, path) ==
    /\ Resolve(method, path) = "post_linkedin"
    /\ next_temp < MaxTemp
    /\ Begin(method, path)
    /\ IF NoToken(GetAccessToken(config))
       THEN /\ api_response' =
                   HTTPException(401, <<"Not authenticated. Please visit /auth/login first">>)
            /\ UNCHANGED post_pc
       ELSE /\ api_response' = [status |-> 0, detail |-> <<>>, body |-> NoBody]
            /\ post_pc' = "userinfo"
    /\ UNCHANGED <<config, temp_files, next_temp, issued_states>>
    /\ UNCHANGED <<limiterVars, analyzerVars, pureVars, fsVars, parseVars,
                   searchVars>>

\* lines 725-731, Step 1
PostUserinfo(reply) ==
    /\ post_pc = "userinfo"
    /\ sent' = Append(sent, "userinfo")
    /\ replies' = Append(replies, reply)
    /\ IF reply.kind = "no_sub"
       THEN \* line 731 raises inside the try: line 817 catches it
            /\ api_response' =
                   ExceptException(StrOfHTTPException(
                       HTTPException(400, <<"Failed to get user ID">>)))
            /\ post_pc' = "idle"
       ELSE IF Raises(reply)
       THEN /\ api_response' = ExceptClauses(reply)
            /\ post_pc' = "idle"
       ELSE /\ post_pc' = "tempfile"
            /\ UNCHANGED api_response
    /\ UNCHANGED <<config, api_request, temp_files, created_temp, next_temp,
                   token_before, issued_states, callback_state>>
    /\ UNCHANGED <<limiterVars, analyzerVars, pureVars, fsVars, parseVars,
                   searchVars>>

\* lines 733-737, Step 2: NamedTemporaryFile(delete=False) creates the file;
\* stored says that image.read() and temp_file.write() went well. When they
\* raise, the with statement closes the file and the try of line 739 has not
\* been entered.
PostTempFile(stored) ==
    /\ post_pc = "tempfile"
    /\ next_temp' = next_temp + 1
    /\ temp_files' = temp_files \cup {next_temp'}
    /\ created_temp' = created_temp \cup {next_temp'}
    /\ IF stored
       THEN /\ post_pc' = "registerUpload"
            /\ UNCHANGED api_response
       ELSE /\ api_response' = ExceptException(<<"read or write failed">>)
            /\ post_pc' = "idle"
    /\ UNCHANGED <<config, api_request, sent, replies, token_before,
                   issued_states, callback_state>>
    /\ UNCHANGED <<limiterVars, analyzerVars, pureVars, fsVars, parseVars,
                   searchVars>>

\* The steps inside the try of line 739: registerUpload (lines 740-761), the
\* PUT of the image (lines 763-769) and ugcPosts (lines 771-804), each
\* followed by the next or, when it raises or was the last, by the finally
\* clause and the response.
StepAfter(step) ==
    CASE step = "registerUpload" -> "upload"
      [] step = "upload" -> "ugcPosts"
      [] step = "ugcPosts" -> "idle"

PostStep(step, reply) ==
    /\ post_pc = step
    /\ step \in {"registerUpload", "upload", "ugcPosts"}
    /\ sent' = Append(sent, step)
    /\ replies' = Append(replies, reply)
    /\ IF Raises(reply)
       THEN /\ temp_files' = Unlink(temp_files, created_temp)
            /\ api_response' = ExceptClauses(reply)
            /\ post_pc' = "idle"
       ELSE /\ post_pc' = StepAfter(step)
            /\ IF step = "ugcPosts"
               THEN /\ temp_files' = Unlink(temp_files, created_temp)
                    /\ api_response' =
                           JSONResponse([success |-> TRUE,
                                         message |-> "Posted to LinkedIn successfully!"])
               ELSE UNCHANGED <<temp_files, api_response>>
    /\ UNCHANGED <<config, api_request, created_temp, next_temp, token_before,
                   issued_states, callback_state>>
    /\ UNCHANGED <<limiterVars, analyzerVars, pureVars, fsVars, parseVars,
                   searchVars>>

\* POST /notify, lines 933-1044. reply is how the request that creates the
\* issue ends: a status of JiraCreated with JSON, another status, a body
\* that is not JSON, or no response (httpx.RequestError).
JiraCreated == {200, 201}
JiraOtherStatuses == {400, 401, 500}
JiraReplies ==
    {[kind |-> "ok", status |-> st] : st \in JiraCreated}
        \cup {HttpError(st) : st \in JiraOtherStatuses}
        \cup {BadBody, NetworkError}

\* lines 1029-1032: raise HTTPException(status_code=response.status_code, ...)
JiraApiError(status_code) == HTTPException(status_code, <<"Jira API error">>)

\* lines 1034-1044: the except clauses of the handler
NotifyExceptRequestError ==
    HTTPException(500, <<"Failed to connect to Jira">>)

NotifyExceptException(str_e) ==
    HTTPException(500, <<"Failed to send notification: ">> \o str_e)

SendTeamNotification(method, path, reply) ==
    /\ Resolve(method, path) = "send_team_notification"
    /\ api_request' = [method |-> method, path |-> path]
    /\ post_pc = "idle"
    /\ created_temp' = {}
    /\ token_before' = config.access_token
    /\ callback_state' = <<>>
    /\ sent' = <<"jira_issue">>
    /\ replies' = <<reply>>
    /\ api_response' =
           CASE reply.kind = "ok" ->
                    JSONResponse([status |-> "success",
                                  message |-> "Jira issue created"])
             [] reply.kind = "http_error" ->
                    \* raised inside the try: line 1040 catches it
                    NotifyExceptException(
                        StrOfHTTPException(JiraApiError(reply.status)))
             [] reply.kind = "network_error" -> NotifyExceptRequestError
             [] reply.kind = "bad_body" -> NotifyExceptException(<<reply.kind>>)
    /\ UNCHANGED <<config, post_pc, temp_files, next_temp, issued_states>>
    /\ UNCHANGED <<limiterVars, analyzerVars, pureVars, fsVars, parseVars,
                   searchVars>>

\* The service: config.json and the uploads folder as they may be when the
\* application starts, and the requests tried.
ConfigsAtStart ==
    { [client |-> FALSE, access_token |-> <<>>],
      [client |-> TRUE, access_token |-> <<>>],
      [client |-> TRUE, access_token |-> <<"">>],
      [client |-> TRUE, access_token |-> <<"tokA">>] }

HiddenFile ==
    [name |-> [kind |-> ".gitkeep", stamp |-> 0, ext |-> ""],
     mtime |-> 0, content |-> 0]
GuidelinesFile ==
    [name |-> [kind |-> "brand_guidelines", stamp |-> 0, ext |-> ".pdf"],
     mtime |-> 0, content |-> 0]
FoldersAtStart == {{}, {HiddenFile}, {HiddenFile, GuidelinesFile}}

Methods == {"GET", "POST"}
Paths == { <<>>, <<"api", "health">>, <<"health">>,
           <<"api", "uploads", "list">>,
           <<"api", "compliance", "uploads", "list">>,
           <<"auth", "login">>, <<"callback">>, <<"auth", "callback">>,
           <<"post">>, <<"notify">> }

ServiceInit ==
    /\ LimiterIdle
    /\ AnalyzerIdle
    /\ PureIdle
    /\ ParseIdle
    /\ SearchIdle
    /\ files \in FoldersAtStart
    /\ fs_time = 0
    /\ requests_done = 0
    /\ guideline_files = <<>>
    /\ guideline_file = <<>>
    /\ uploaded_last = <<>>
    /\ response = 0
    /\ config \in ConfigsAtStart
    /\ api_request = [method |-> "none", path |-> <<>>]
    /\ api_response = [status |-> 0, detail |-> <<>>, body |-> NoBody]
    /\ post_pc = "idle"
    /\ temp_files = {}
    /\ created_temp = {}
    /\ next_temp = 0
    /\ sent = <<>>
    /\ replies = <<>>
    /\ token_before = <<>>
    /\ issued_states = {}
    /\ callback_state = <<>>

\* The endpoint of every request tried
Dispatch == [r \in Methods \X Paths |-> Resolve(r[1], r[2])]

RequestsTo(endpoints) ==
    {r \in Methods \X Paths : Dispatch[r] \in endpoints}

ServiceNext ==
    \/ \E r \in RequestsTo({"read_root"}) : ReadRoot(r[1], r[2])
    \/ \E r \in RequestsTo({"health_check"}) : HealthCheck(r[1], r[2])
    \/ \E r \in RequestsTo({"list_all_uploads"}) : ListAllUploads(r[1], r[2])
    \/ \E r \in RequestsTo({"not_found", "method_not_allowed"}) :
           NoRoute(r[1], r[2])
    \/ \E r \in RequestsTo({"auth_login"}), state \in StateValues :
           AuthLogin(r[1], r[2], state)
    \/ \E r \in RequestsTo({"callback_redirect"}), state \in CallbackStates :
           CallbackRedirect(r[1], r[2], state)
    \/ \E r \in RequestsTo({"auth_callback"}), state \in CallbackStates,
          token_reply \in Replies, access_token \in TokenValues,
          userinfo_reply \in Replies :
           AuthCallback(r[1], r[2], state, token_reply, access_token,
                        userinfo_reply)
    \/ \E r \in RequestsTo({"post_linkedin"}) : PostBegin(r[1], r[2])
    \/ \E reply \in Replies \cup {NoSub} : PostUserinfo(reply)
    \/ \E stored \in BOOLEAN : PostTempFile(stored)
    \/ \E reply \in Replies : PostStep("registerUpload", reply)
    \/ \E reply \in Replies \ {BadBody} : PostStep("upload", reply)
    \/ \E reply \in Replies : PostStep("ugcPosts", reply)
    \/ \E r \in RequestsTo({"send_team_notification"}), reply \in JiraReplies :
           SendTeamNotification(r[1], r[2], reply)

ServiceSpec == ServiceInit /\ [][ServiceNext]_vars

----------------------------------------------------------------------------
\* Claims about the service

PostRequest == [method |-> "POST", path |-> <<"post">>]
CallbackRequest == [method |-> "GET", path |-> <<"auth", "callback">>]
NotifyRequest == [method |-> "POST", path |-> <<"notify">>]

\* a response whose status says success
Success(resp) == resp.status \in 200..299

\* C11: GET /api/uploads/list responds with status 200 and a JSON body that
\* carries a 'count' of the files found.
C11_UploadsListResponds ==
    api_request = [method |-> "GET", path |-> <<"api", "uploads", "list">>] =>
        /\ api_response.status = 200
        /\ "count" \in DOMAIN api_response.body

\* C12: GET /api/health and GET / respond with status 200 in every reachable
\* state of the service, whatever the authentication, the configuration and
\* the contents of the uploads folder.
C12_HealthAndRootRespond ==
    /\ api_request = [method |-> "GET", path |-> <<"api", "health">>] =>
           /\ api_response.status = 200
           /\ api_response.body = [status |-> "healthy"]
    /\ api_request = [method |-> "GET", path |-> <<>>] =>
           /\ api_response.status = 200
           /\ api_response.body = [status |-> "running"]
    /\ post_pc = "idle" =>
           /\ ENABLED HealthCheck("GET", <<"api", "health">>)
           /\ ENABLED ReadRoot("GET", <<>>)

\* the health check answers 200 with no token, no client configuration and
\* files in the uploads folder
C12_Witness ==
    /\ api_request = [method |-> "GET", path |-> <<"api", "health">>]
    /\ api_response.status = 200
    /\ config = [client |-> FALSE, access_token |-> <<>>]
    /\ files # {}

\* C13: POST /post performs its LinkedIn steps in the order userinfo,
\* registerUpload, image upload, ugcPosts; ugcPosts is sent only after the
\* three earlier steps each succeeded, and when a step fails no later step
\* is performed and the response is not a success.
C13_PostStepsInOrder ==
    api_request = PostRequest =>
        LET order == <<"userinfo", "registerUpload", "upload", "ugcPosts">>
        IN  /\ Len(sent) <= 4
            /\ Len(replies) = Len(sent)
            /\ \A i \in 1..Len(sent) : sent[i] = order[i]
            /\ \A i \in 1..Len(sent) :
                   replies[i].kind # "ok" =>
                       /\ Len(sent) = i
                       /\ post_pc = "idle"
                       /\ ~Success(api_response)
            /\ (\E i \in 1..Len(sent) : sent[i] = "ugcPosts") =>
                   \A i \in 1..3 : replies[i].kind = "ok"

\* a post that went through all four steps, after one that the PUT stopped
C13_Witness ==
    /\ api_request = PostRequest
    /\ post_pc = "idle"
    /\ sent = <<"userinfo", "registerUpload", "upload", "ugcPosts">>
    /\ Success(api_response)
    /\ next_temp = 2

\* C14: when config.json holds no access token, POST /post responds 401,
\* sends no request to LinkedIn and creates no temporary file.
C14_PostRequiresToken ==
    (api_request = PostRequest /\ token_before \in {<<>>, <<"">>}) =>
        /\ api_response.status = 401
        /\ post_pc = "idle"
        /\ sent = <<>>
        /\ created_temp = {}

\* POST /post answered 401 for a config.json whose access_token is ""
C14_Witness ==
    /\ api_request = PostRequest
    /\ token_before = <<"">>
    /\ api_response.status = 401

\* C15: every temporary file that POST /post creates has been deleted by the
\* time the handler finishes, whether the post succeeded or a step failed.
C15_TempFilesDeleted ==
    (api_request = PostRequest /\ post_pc = "idle") =>
        created_temp \cap temp_files = {}

\* C16: when the userinfo response carries no 'sub', POST /post responds
\* with status 400 and detail 'Failed to get user ID'.
C16_MissingSubIs400 ==
    (api_request = PostRequest /\ post_pc = "idle"
         /\ replies # <<>> /\ replies[1] = NoSub) =>
        /\ api_response.status = 400
        /\ api_response.detail = <<"Failed to get user ID">>

\* C17: when Jira answers the issue creation with a status other than 200 or
\* 201, /notify responds with that same status and a 'Jira API error'
\* detail.
C17_JiraStatusPassedOn ==
    (api_request = NotifyRequest /\ replies[1].kind = "http_error") =>
        /\ api_response.status = replies[1].status
        /\ api_response.detail[1] = "Jira API error"

\* C18: whenever GET /auth/callback responds with 'Authentication failed'
\* (status 400), the access_token of config.json is the same as before the
\* request.
C18_FailedCallbackKeepsToken ==
    (api_request = CallbackRequest /\ api_response.status = 400
         /\ api_response.detail = <<"Authentication failed">>) =>
        config.access_token = token_before

\* C19: GET /auth/callback exchanges the code for a token only when its
\* state is one that an earlier GET /auth/login issued; a callback with any
\* other state is rejected and stores no token.
C19_StateChecked ==
    (api_request = CallbackRequest /\ callback_state # <<>>
         /\ callback_state[1] \notin issued_states) =>
        /\ sent = <<>>
        /\ ~Success(api_response)
        /\ config.access_token = token_before

----------------------------------------------------------------------------
\* The status of a compliance check (compliance.py)

MaxAnswerPieces == 3   \* pieces of text in the answer of the model

\* s.split('\n')
RECURSIVE SplitLines(_)
SplitLines(s) ==
    IF \E k \in 1..Len(s) : s[k] = "\n"
    THEN LET k == CHOOSE k \in 1..Len(s) :
                      s[k] = "\n" /\ \A m \in 1..(k - 1) : s[m] # "\n"
         IN  <<SubSeq(s, 1, k - 1)>> \o SplitLines(SubSeq(s, k + 1, Len(s)))
    ELSE <<s>>

\* the literals of _parse_response, lines 141-147
StatusMarker ==
    <<"C", "O", "M", "P", "L", "I", "A", "N", "C", "E", " ", "S", "T", "A",
      "T", "U", "S", ":">>
WordCompliant ==
    <<"C", "O", "M", "P", "L", "I", "A", "N", "T">>
WordNonCompliant ==
    <<"N", "O", "N", "-", "C", "O", "M", "P", "L", "I", "A", "N", "T">>

\* lines 139-143: the loop over the lines; status_line is the first line
\* whose upper case has the marker, in upper case, or "" when none has
RECURSIVE StatusLine_NoBreak(_)
StatusLine_NoBreak(lines) ==
    IF lines = <<>> THEN <<>>
    ELSE IF StatusLine_NoBreak(Tail(lines)) # <<>>
    THEN StatusLine_NoBreak(Tail(lines))
    ELSE IF Contains(Upper(Head(lines)), StatusMarker)
    THEN Upper(Head(lines))
    ELSE <<>>

RECURSIVE StatusLine(_)
StatusLine(lines) ==
    IF lines = <<>> THEN <<>>
    ELSE IF Contains(Upper(Head(lines)), StatusMarker)
    THEN Upper(Head(lines))
    ELSE StatusLine(Tail(lines))

\* lines 137-153: _parse_response
ParseResponse(response_text) ==
    LET status_line == StatusLine(SplitLines(response_text))
    IN  [raw_analysis |-> response_text,
         compliant |-> /\ Contains(status_line, WordCompliant)
                       /\ ~Contains(status_line, WordNonCompliant),
         status |-> status_line]

\* compliance_check, lines 401-411: the status reported for ai_result
StatusOfResult(ai_result) ==
    IF ai_result.compliant THEN "passed" ELSE "failed"

\* The answer is parsed and the status reported
ReportStatus ==
    /\ compliance_status = <<>>
    /\ compliance_status' = <<StatusOfResult(ParseResponse(answer))>>
    /\ UNCHANGED answer
    /\ UNCHANGED <<limiterVars, analyzerVars, pureVars, fsVars, apiVars,
                   searchVars>>

\* The pieces the answers of the model are made of
LineCompliant ==
    <<"C", "O", "M", "P", "L", "I", "A", "N", "C", "E", " ", "S", "T", "A",
      "T", "U", "S", ":", " ", "C", "O", "M", "P", "L", "I", "A", "N", "T">>
LineNonCompliant ==
    <<"C", "O", "M", "P", "L", "I", "A", "N", "C", "E", " ", "S", "T", "A",
      "T", "U", "S", ":", " ", "N", "O", "N", "-", "C", "O", "M", "P", "L",
      "I", "A", "N", "T">>
LineNeedsReview ==
    <<"C", "O", "M", "P", "L", "I", "A", "N", "C", "E", " ", "S", "T", "A",
      "T", "U", "S", ":", " ", "N", "E", "E", "D", "S", " ", "R", "E", "V",
      "I", "E", "W">>
LineCompliantMixed ==
    <<"C", "o", "m", "p", "l", "i", "a", "n", "c", "e", " ", "S", "t", "a",
      "t", "u", "s", ":", " ", "C", "o", "m", "p", "l", "i", "a", "n", "t">>
LineNonCompliantMixed ==
    <<"*", "*", "C", "o", "m", "p", "l", "i", "a", "n", "c", "e", " ", "s",
      "t", "a", "t", "u", "s", ":", "*", "*", " ", "N", "o", "n", "-", "C",
      "o", "m", "p", "l", "i", "a", "n", "t">>
PieceCompliant ==
    <<" ", "C", "O", "M", "P", "L", "I", "A", "N", "T">>
PieceOther ==
    <<"S", "U", "M", "M", "A", "R", "Y", ":", " ", "o", "k">>

AnswerPieces ==
    {LineCompliant, LineNonCompliant, LineNeedsReview, LineCompliantMixed,
     LineNonCompliantMixed, PieceCompliant, PieceOther, NewLine}

Answers == {Flatten(ps) : ps \in SeqsUpTo(AnswerPieces, MaxAnswerPieces)}

ComplianceStatusInit ==
    /\ LimiterIdle
    /\ AnalyzerIdle
    /\ PureIdle
    /\ FsIdle
    /\ ApiIdle
    /\ SearchIdle
    /\ answer \in Answers
    /\ compliance_status = <<>>

ComplianceStatusNext == ReportStatus

ComplianceStatusSpec == ComplianceStatusInit /\ [][ComplianceStatusNext]_vars

\* The lines of the answer, by position: a line starts at 1 and after every
\* newline, and runs up to the next newline or the end
LineStartsOf(s) == {1} \cup {k + 1 : k \in {m \in 1..Len(s) : s[m] = "\n"}}

LineAt(s, p) ==
    LET ends == {q \in p..Len(s) : s[q] = "\n"}
        q == IF ends = {} THEN Len(s) + 1
             ELSE CHOOSE q \in ends : \A r \in ends : q <= r
    IN  SubSeq(s, p, q - 1)

\* the status line as the claim reads it, letter for letter
FirstStatusLines(s) ==
    {p \in LineStartsOf(s) :
        /\ Contains(LineAt(s, p), StatusMarker)
        /\ \A q \in LineStartsOf(s) :
               q < p => ~Contains(LineAt(s, q), StatusMarker)}

\* the status line compared in upper case
FirstStatusLinesUpper(s) ==
    {p \in LineStartsOf(s) :
        /\ Contains(Upper(LineAt(s, p)), StatusMarker)
        /\ \A q \in LineStartsOf(s) :
               q < p => ~Contains(Upper(LineAt(s, q)), StatusMarker)}

\* C20 as stated: the status is 'passed' if and only if the first line of
\* the answer containing 'COMPLIANCE STATUS:' contains 'COMPLIANT' and does
\* not contain 'NON-COMPLIANT'.
C20_PassedIffStatusLineCompliant ==
    compliance_status # <<>> =>
        (compliance_status[1] = "passed" <=>
            \E p \in FirstStatusLines(answer) :
                /\ Contains(LineAt(answer, p), WordCompliant)
                /\ ~Contains(LineAt(answer, p), WordNonCompliant))

\* C20 amended: the status is 'passed' if and only if the first line of the
\* answer that contains 'COMPLIANCE STATUS:' once put in upper case
\* contains, in upper case, 'COMPLIANT' and not 'NON-COMPLIANT'; it is
\* 'failed' otherwise, so for NEEDS REVIEW, NON-COMPLIANT and for an answer
\* with no status line.
C20_PassedIffUpperStatusLineCompliant ==
    compliance_status # <<>> =>
        /\ compliance_status[1] \in {"passed", "failed"}
        /\ compliance_status[1] = "passed" <=>
               \E p \in FirstStatusLinesUpper(answer) :
                   /\ Contains(Upper(LineAt(answer, p)), WordCompliant)
                   /\ ~Contains(Upper(LineAt(answer, p)), WordNonCompliant)
        /\ answer \in {LineNeedsReview, LineNonCompliant, PieceOther, <<>>} =>
               compliance_status[1] = "failed"

\* an answer whose first status line says NON-COMPLIANT and whose second
\* says COMPLIANT: failed
C20_Witness ==
    /\ answer = LineNonCompliant \o NewLine \o LineCompliant
    /\ compliance_status = <<"failed">>

-----------------------------------------------------------------------------
\* The status of the copyright check (compliance.py, copyright_check)

CopyrightInit ==
    /\ LimiterIdle
    /\ AnalyzerIdle
    /\ PureIdle
    /\ FsIdle
    /\ ApiIdle
    /\ ParseIdle
    /\ image_results \in SeqsUpTo(ImageResults, MaxResults)
    /\ ai_text \in {<<>>} \cup {<<t>> : t \in AiAnswers}
    /\ copyright_out = <<>>
    /\ written = <<>>

CopyrightNext ==
    \E imgbb_ok \in BOOLEAN, search_ok \in BOOLEAN :
        CopyrightCheck(imgbb_ok, search_ok)

CopyrightSpec == CopyrightInit /\ [][CopyrightNext]_vars

StatusPrefix ==
    <<"S", "T", "A", "T", "U", "S", ":", " ">>
WordCopyrighted ==
    <<"C", "O", "P", "Y", "R", "I", "G", "H", "T", "E", "D">>
WordRisky ==
    <<"R", "I", "S", "K", "Y">>

\* the image results whose link or source names a stock site
StockSiteResults ==
    {r \in ImageResults :
        \E k \in 1..Len(CopyrightSites) :
            \/ Contains(Lower(r.link), CopyrightSites[k])
            \/ Contains(Lower(r.source), CopyrightSites[k])}

\* the positions of the stock-site matches of the search
StockSiteMatches ==
    {i \in 1..Len(image_results) : image_results[i] \in StockSiteResults}

\* the answers that state the status `word` after 'STATUS: '
AnswersStating ==
    [word \in {WordCopyrighted, WordRisky} |->
        {t \in AiAnswers :
            \E i \in 1..Len(t) : HasAt(Upper(t), StatusPrefix \o word, i)}]

AiStates(word) == ai_text # <<>> /\ ai_text[1] \in AnswersStating[word]

\* C21: the status is 'copyrighted' iff at least 5 stock-site matches were
\* found or the AI status is COPYRIGHTED; otherwise 'risky' iff at least 1
\* match was found or the AI status is RISKY; otherwise 'safe' iff the
\* search returned at least one result; otherwise 'unknown'. An AI status
\* of SAFE never lowers the status, and 'safe' is never reported when a
\* stock-site match was found.
C21_StatusByPriority ==
    copyright_out # <<>> =>
        LET status == copyright_out[1].status
            matches == Cardinality(StockSiteMatches)
            copyrighted == matches >= 5 \/ AiStates(WordCopyrighted)
            risky == ~copyrighted /\ (matches >= 1 \/ AiStates(WordRisky))
            safe == ~copyrighted /\ ~risky /\ Len(image_results) >= 1
        IN  /\ status = "copyrighted" <=> copyrighted
            /\ status = "risky" <=> risky
            /\ status = "safe" <=> safe
            /\ status = "unknown" <=> ~copyrighted /\ ~risky /\ ~safe
            /\ matches >= 1 => status \in {"risky", "copyrighted"}
            /\ copyright_out[1].copyright_count = matches
            /\ copyright_out[1].total_results = Len(image_results)

\* five stock-site matches and an answer that states SAFE: copyrighted
C21_Witness ==
    /\ copyright_out # <<>>
    /\ Cardinality(StockSiteMatches) >= 5
    /\ ai_text = <<LongStatusSafe>>
    /\ copyright_out[1].status = "copyrighted"

\* C22: any two requests to compliance-check, copyright-check or
\* brand-guidelines upload store their file under filenames unique to each
\* request, so no request overwrites the file written by another request,
\* also when the requests arrive close together.
C22_UniqueFilenames ==
    \A i, j \in 1..Len(written) : i # j => written[i] # written[j]

====
